---- MODULE Spec2Model ----
(***************************************************************************)
(* Connection lifecycle and retry core of xd-post: the heartbeat           *)
(* WebSocketClient (src/src/index.ts), the SSEClient and the               *)
(* ReconnectionMonitor (src/src/sse-client.ts), the ReconnectionManager    *)
(* and the NetworkStateDetector (src/unnamed/part_001), and the            *)
(* connection management of the auto-tracker (src/src/auto-tracker.ts).    *)
(*                                                                         *)
(* One behaviour exercises one of them: the variable client, fixed by      *)
(* Init, says which object the behaviour is about.  The two transport      *)
(* clients have the same private fields (retryAttempts, retryTimer,        *)
(* isConnecting) and share those variables; websocket / eventSource are    *)
(* the connection handles.  A ReconnectionMonitor owns a                   *)
(* ReconnectionManager and a NetworkStateDetector and uses their           *)
(* variables; the auto-tracker keeps the WebSocketClient objects it        *)
(* creates as records in the variable clients.                             *)
(*                                                                         *)
(* Every callback of the host runtime (socket event, timer firing, caller  *)
(* invocation) is one action: the event loop serialises them.              *)
(*                                                                         *)
(* Spec is the connection lifecycle of the three objects.  SpecMsg adds    *)
(* the message traffic of the two transport clients (inbound frames and    *)
(* events, send, setAutoHandlePopup) to the lifecycle of a client with one *)
(* configuration.  The history variables effects and lastMsg record what   *)
(* the last callback was given and which calls it made.                    *)
(* SpecHeartbeat is the WebSocketClient with its heartbeat interval,       *)
(* SpecThrowing the transport clients and the NetworkStateDetector         *)
(* (src/unnamed/part_001) with callbacks that throw, SpecRm the            *)
(* ReconnectionManager of Spec on its own, and SpecDelay the               *)
(* ReconnectionManager over the delay configurations.  SpecNsd is the      *)
(* NetworkStateDetector whose listeners add and remove listeners while     *)
(* they are notified.  SpecMonitor, SpecMetrics and SpecMonitorNetwork     *)
(* are the ReconnectionMonitor: its manager and resetMetrics, its          *)
(* history and metrics, and its network listener.  SpecTracker is the      *)
(* auto-tracker's connection API with the events of the clients it         *)
(* created, SpecTrack the polling loop of track.                           *)
(*                                                                         *)
(* Connection objects and timers are told apart only by the handle the     *)
(* client keeps.  The connection the field websocket / eventSource refers  *)
(* to is represented by its readyState; the connections the client has     *)
(* dropped its reference to, but whose handlers still run on the client,   *)
(* are a bag indexed by readyState (orphans).  Likewise retryTimer says    *)
(* whether the timer the field refers to is pending, and orphanTimers      *)
(* counts the pending timers whose handle was overwritten.                 *)
(***************************************************************************)
EXTENDS Integers, FiniteSets, Sequences, TLC

(* ------------------------------ bounds -------------------------------- *)
\* connection objects that can still deliver events at the same time
MaxSockets == 2
\* retry timers that can be pending at the same time
MaxTimers == 2
\* 'max retry attempts reached' reports counted within one exhaustion
MaxReports == 2
\* largest session id a caller passes to updateSessionId
MaxSession == 1
\* largest configured maxRetryAttempts besides 0 and the default
MaxConfigured == 2
\* largest maxAttempts a ReconnectionManager is configured with
MaxAttemptsCfg == 3
\* largest value of the clock
MaxNow == 2
\* largest number of times an inbound payload is JSON-encoded
MaxEncodings == 2
\* callbacks a caller registers with a NetworkStateDetector, and the longest
\* list of listeners
MaxListeners == 2
\* largest maxDelay (and baseDelay) of the small delay configurations
MaxDelayCfg == 3
\* largest backoffMultiplier of the small delay configurations
MaxMultiplier == 2
\* Math.random() returns one of 0/RandomSteps .. (RandomSteps - 1)/RandomSteps
RandomSteps == 4
\* longest connection history of a ReconnectionMonitor
MaxHistory == 2
\* largest duration a caller reports to a ReconnectionMonitor
MaxDuration == 2
\* reconnection attempts a ReconnectionMonitor counts between two resets
MaxCounted == 2
\* distinct ids PostHog hands out, and session ids a caller passes
MaxIds == 2
\* websocket urls a caller passes to enableAutoTracker
MaxUrls == 2
\* WebSocketClient objects the auto-tracker creates
MaxClients == 2
\* retry attempts a client of the auto-tracker counts
MaxTrkRetries == 2
\* calls of enableAutoTracker, disableAutoTracker, updateWebSocketSessionId,
\* identify and reset in a behaviour
MaxCalls == 3

(* ---------------------------- constants ------------------------------- *)
\* constructor default of maxRetryAttempts, and the fallback of `|| 5`
DefaultMaxRetryAttempts == 5
\* constructor default of ReconnectionConfig.maxAttempts
DefaultMaxAttempts == 10
\* constructor defaults of baseDelay, maxDelay and backoffMultiplier
DefaultBaseDelay == 1000
DefaultMaxDelay == 30000
DefaultBackoffMultiplier == 2
\* constructor default of ReconnectionConfig.jitterRange
DefaultJitterRange == 1000
\* connectionStartTime / lastDisconnectionTime = null
NoTime == 0
\* delay of an operation that called no setTimeout
NoDelay == -1
\* stats of an operation that is not getReconnectionStats
NoStats ==
    [totalAttempts |-> -1, maxAttempts |-> -1, remainingAttempts |-> -1,
     isMaxAttemptsReached |-> FALSE]

\* readyState of a connection object that can still deliver events.
\* CLOSING_FAIL is a WebSocket closed before it was established: readyState
\* CLOSING, and the browser fails it (error, then an unclean close).
LiveStates == {"CONNECTING", "OPEN", "CLOSING", "CLOSING_FAIL"}

VARIABLES
    client,            \* which object this behaviour exercises
    maxRetryAttempts,  \* config.maxRetryAttempts
    urlOk,             \* whether `new WebSocket(url)` / `new EventSource(url)` accepts config.url
    sessionId,         \* config.sessionId (0 = undefined)
    websocket,         \* readyState of WebSocketClient.websocket, or "null"
    eventSource,       \* readyState of SSEClient.eventSource, or "null"
    orphans,           \* connections no longer referenced that still deliver events, by readyState
    retryAttempts,     \* retryAttempts
    retryTimer,        \* this.retryTimer: "null", "pending", or "stale" (handle of a fired timer)
    orphanTimers,      \* pending retry timers whose handle was overwritten
    isConnecting,      \* isConnecting
    heartbeatTimer,    \* heartbeatTimer # null
    lastOp,            \* history: the callback that ran last
    prevAttempts,      \* history: the attempt counter before the callback that ran last
    maxReports,        \* history: 'Max retry attempts reached' errors since the counter was last reset
    autoConnects,      \* history: connections opened by retry timers since the last caller call or open
    callerIdle,        \* history: disconnect() was the caller's last lifecycle call
    urlSession,        \* session id in the URL of the connection websocket / eventSource refers to (0 = none)
    autoHandlePopup,   \* config.autoHandlePopup
    effects,           \* history: calls the last callback made on connections and callbacks, in order
    evtState,          \* history: readyState the connection had before the open, error or close event the last callback handled
    lastMsg,           \* history: the inbound message the last callback handled
    maxAttempts,           \* ReconnectionManager: config.maxAttempts
    baseDelay,             \* ReconnectionManager: config.baseDelay
    maxDelay,              \* ReconnectionManager: config.maxDelay
    backoffMultiplier,     \* ReconnectionManager: config.backoffMultiplier
    jitterRange,           \* ReconnectionManager: config.jitterRange
    delay,                 \* history: delay the last operation passed to setTimeout and onReconnectionAttempt
    reconnectAttempts,     \* ReconnectionManager: reconnectAttempts
    reconnectTimer,        \* ReconnectionManager: reconnectTimer, "null", "pending" or "stale"
    rmOrphanTimers,        \* ReconnectionManager: pending timers whose handle was overwritten
    isReconnecting,        \* ReconnectionManager: isReconnecting
    connectionStartTime,   \* ReconnectionManager: connectionStartTime (NoTime = null)
    lastDisconnectionTime, \* ReconnectionManager: lastDisconnectionTime (NoTime = null)
    now,                   \* Date.now()
    called,                \* history: callbacks the ReconnectionManager invoked in the last operation
    stats,                 \* history: what the last operation returned, if it was getReconnectionStats
    listeners,             \* NetworkStateDetector: listeners
    callbackArg,           \* history: the callback the last addListener or removeListener was given (0 = none)
    notified,              \* history: listeners the last notification called, in order (0 = one of them threw)
    isOnline,              \* history: the argument the last notification passed to the listeners
    reentry,               \* history: what each listener did when the last notification called it
    connectionHistory,     \* ReconnectionMonitor: connectionHistory
    metrics,               \* ReconnectionMonitor: metrics
    startTime,             \* ReconnectionMonitor: startTime
    monitored,             \* history: the clients given to monitorWebSocket / monitorSSE, and whether each is connected
    logged,                \* history: the log methods and the reconnections the last operation of the monitor called
    trackerEnabled,        \* auto-tracker: trackerEnabled
    trackerOptions,        \* auto-tracker: trackerOptions (set = FALSE: null)
    persistedUserId,       \* auto-tracker: persistedUserId (0 = null)
    websocketClient,       \* auto-tracker: websocketClient, an index of clients (0 = null)
    clients,               \* the WebSocketClient objects the auto-tracker created
    removeListeners,       \* auto-tracker: the number of closures in removeListeners
    distinctId,            \* what posthog.get_distinct_id() returns
    poll,                  \* the timers and the closure variables of the last call of track
    calls                  \* history: the calls of the auto-tracker's connection API so far

vars == <<client, maxRetryAttempts, urlOk, sessionId, websocket, eventSource,
          orphans, retryAttempts, retryTimer, orphanTimers, isConnecting,
          heartbeatTimer, lastOp, prevAttempts, maxReports, autoConnects, callerIdle,
          urlSession, autoHandlePopup, effects, evtState, lastMsg,
          maxAttempts, baseDelay, maxDelay, backoffMultiplier, jitterRange, delay,
          reconnectAttempts, reconnectTimer, rmOrphanTimers,
          isReconnecting, connectionStartTime, lastDisconnectionTime, now, called,
          stats, listeners, callbackArg, notified, isOnline, reentry,
          connectionHistory, metrics, startTime, monitored, logged,
          trackerEnabled, trackerOptions, persistedUserId, websocketClient, clients,
          removeListeners, distinctId, poll, calls>>

delayCfgVars == <<baseDelay, maxDelay, backoffMultiplier, jitterRange>>

rmVars == <<maxAttempts, delayCfgVars, delay, reconnectAttempts, reconnectTimer,
            rmOrphanTimers, isReconnecting, connectionStartTime, lastDisconnectionTime,
            now, called, stats>>

clientVars == <<sessionId, websocket, eventSource, orphans, retryAttempts, retryTimer,
                orphanTimers, isConnecting, heartbeatTimer, autoConnects, callerIdle,
                urlSession, autoHandlePopup, effects, evtState, lastMsg>>

cfgVars == <<client, maxRetryAttempts, urlOk>>

nsdVars == <<listeners, callbackArg, notified, isOnline, reentry>>

monVars == <<connectionHistory, metrics, startTime, monitored, logged>>

trkVars == <<trackerEnabled, trackerOptions, persistedUserId, websocketClient, clients,
             removeListeners, distinctId, poll, calls>>

(* ------------------------- shared helpers ----------------------------- *)
\* JavaScript `v || d` on numbers: 0 is falsy
OrDefault(v, d) == IF v = 0 THEN d ELSE v

NoOrphans == [st \in LiveStates |-> 0]

OrphanCount(o) == o["CONNECTING"] + o["OPEN"] + o["CLOSING"] + o["CLOSING_FAIL"]

\* number of pending retry timers
PendingTimers(rt, ot) == ot + (IF rt = "pending" THEN 1 ELSE 0)

\* the client drops its reference to a connection in state st
Orphan(c, st) ==
    IF st \in LiveStates
    THEN [c EXCEPT !.orphans[st] = @ + 1,
                   !.ok = c.ok /\ OrphanCount(c.orphans) + 1 < MaxSockets]
    ELSE c

\* `this.retryTimer = setTimeout(...)`: the handle held before is overwritten
ArmRetryTimer(c) ==
    [c EXCEPT !.retryTimer = "pending",
              !.orphanTimers = IF c.retryTimer = "pending" THEN @ + 1 ELSE @,
              !.ok = c.ok /\ PendingTimers(c.retryTimer, c.orphanTimers) < MaxTimers]

\* `if (this.retryTimer) { clearTimeout(this.retryTimer); this.retryTimer = null; }`
ClearRetryTimer(c) == [c EXCEPT !.retryTimer = "null"]

(* inbound messages *)
\* A JSON text is the sequence of its layers, outermost first: "str" is a
\* string literal whose content is the rest of the sequence, "obj" an object
\* literal, "bad" text that is not JSON.  <<>> is the text of a missing value.
NoText == <<>>

\* an object JSON.stringify-ed n + 1 times (leaf "obj"), or text that stops
\* being JSON at that depth (leaf "bad")
Stringified(n, leaf) == [i \in 1..(n + 1) |-> IF i = n + 1 THEN leaf ELSE "str"]

Texts == {Stringified(n, leaf) : n \in 0..(MaxEncodings - 1), leaf \in {"obj", "bad"}}

\* what the handlers read of a decoded object: its type, whether
\* strategy.content is there, whether payload is there
NoEnvelope == [type |-> "none", strategy |-> FALSE, payload |-> FALSE]

Envelopes ==
    {e \in [type : {"popup", "other"}, strategy : BOOLEAN, payload : BOOLEAN] :
        e.payload => e.strategy}

\* an event of a connection: event.data is the text data; if it ends in an
\* object, obj describes it, message is the text of its field message and
\* inner the object that text ends in
Msg(channel, data, obj, message, inner) ==
    [channel |-> channel, data |-> data, obj |-> obj, message |-> message, inner |-> inner]

\* lastMsg of a callback that handles no inbound message
NoMsg == Msg("none", NoText, NoEnvelope, NoText, NoEnvelope)

\* JavaScript values a handler holds: a string with its content, an object,
\* or the exception that was thrown instead
JsString(t) == [k |-> "str", t |-> t]

JsObject == [k |-> "obj", t |-> NoText]

JsThrown == [k |-> "throw", t |-> NoText]

\* JSON.parse(v): the argument is converted to a string first, and
\* String(object) = "[object Object]" is not JSON
JsonParse(v) ==
    IF v.k # "str" \/ v.t = NoText
    THEN JsThrown
    ELSE CASE Head(v.t) = "obj" -> JsObject
           [] Head(v.t) = "str" -> JsString(Tail(v.t))
           [] OTHER             -> JsThrown

\* number of occurrences of x in the sequence fx
Count(fx, x) == Cardinality({i \in DOMAIN fx : fx[i] = x})

\* callbacks of the config that the event handlers call
Callbacks == {"onOpen", "onError", "onClose"}

\* `this.config.cb?.()` when the callbacks in throwing throw: the call is
\* recorded, and the exception when there is one
Call(c, cb, throwing) ==
    [c EXCEPT !.fx = IF cb \in throwing THEN @ \o <<cb, "throw">> ELSE Append(@, cb)]

(* ------------------ WebSocketClient (src/src/index.ts) ---------------- *)
\* the fields of the client as a record; created counts `new WebSocket`
\* calls of the running callback, fx lists the calls it made on connections
\* and on the callbacks of the caller, ok = FALSE when a bound is exceeded
WsCur ==
    [websocket |-> websocket, orphans |-> orphans, retryAttempts |-> retryAttempts,
     retryTimer |-> retryTimer, orphanTimers |-> orphanTimers,
     isConnecting |-> isConnecting, heartbeatTimer |-> heartbeatTimer,
     maxReports |-> maxReports, sessionId |-> sessionId, urlSession |-> urlSession,
     autoHandlePopup |-> autoHandlePopup, fx |-> <<>>, threw |-> FALSE,
     created |-> 0, ok |-> TRUE]

WsHandleRetry(c) ==
    IF c.retryAttempts >= OrDefault(maxRetryAttempts, DefaultMaxRetryAttempts)
    THEN [c EXCEPT !.maxReports = @ + 1, !.ok = c.ok /\ c.maxReports < MaxReports]
    ELSE ArmRetryTimer([c EXCEPT !.retryAttempts = @ + 1])

WsIsConnected(c) == c.websocket = "OPEN"

WsConnectOp(c) ==
    IF c.isConnecting \/ c.websocket = "OPEN"
    THEN c
    ELSE IF urlOk
         THEN [Orphan(c, c.websocket) EXCEPT !.isConnecting = TRUE,
                                             !.websocket = "CONNECTING",
                                             !.urlSession = c.sessionId,
                                             !.fx = Append(@, "new"),
                                             !.created = @ + 1]
         ELSE WsHandleRetry([c EXCEPT !.isConnecting = FALSE])

WsStartHeartbeat(c) == [c EXCEPT !.heartbeatTimer = TRUE]

WsStopHeartbeat(c) == [c EXCEPT !.heartbeatTimer = FALSE]

WsOnOpen(c) ==
    WsStartHeartbeat([c EXCEPT !.isConnecting = FALSE, !.retryAttempts = 0,
                               !.maxReports = 0])

WsOnError(c) == WsHandleRetry([c EXCEPT !.isConnecting = FALSE])

WsOnClose(c, wasClean) ==
    LET d == WsStopHeartbeat([c EXCEPT !.isConnecting = FALSE])
    IN  IF ~wasClean THEN WsHandleRetry(d) ELSE d

\* The three handlers with the calls of the caller's callbacks; what follows
\* the call of a callback that throws is not executed.
WsOnOpenCalling(c, throwing) == Call(WsOnOpen(c), "onOpen", throwing)

WsOnErrorCalling(c, throwing) ==
    LET d == Call([c EXCEPT !.isConnecting = FALSE], "onError", throwing)
    IN  IF "onError" \in throwing THEN d ELSE WsHandleRetry(d)

WsOnCloseCalling(c, wasClean, throwing) ==
    LET d == Call(WsStopHeartbeat([c EXCEPT !.isConnecting = FALSE]), "onClose", throwing)
    IN  IF "onClose" \in throwing
        THEN d
        ELSE IF ~wasClean THEN WsHandleRetry(d) ELSE d

\* WebSocket.close(1000, ...) as the browser implements it: a socket that is
\* not yet established is failed (error + unclean close follow), an open one
\* starts the closing handshake
SocketClose(st) ==
    CASE st = "CONNECTING" -> "CLOSING_FAIL"
      [] st = "OPEN"       -> "CLOSING"
      [] OTHER             -> st

WsDisconnectOp(c) ==
    LET a == WsStopHeartbeat(ClearRetryTimer(c))
        b == IF a.websocket # "null"
             THEN [Orphan(a, SocketClose(a.websocket)) EXCEPT !.websocket = "null",
                                                              !.urlSession = 0,
                                                              !.fx = Append(@, "close")]
             ELSE a
    IN  [b EXCEPT !.isConnecting = FALSE, !.retryAttempts = 0, !.maxReports = 0]

WsReconnectOp(c) ==
    WsConnectOp([ClearRetryTimer(c) EXCEPT !.retryAttempts = 0, !.maxReports = 0])

WsResetRetryAttemptsOp(c) ==
    ClearRetryTimer([c EXCEPT !.retryAttempts = 0, !.maxReports = 0])

\* v is the decoded value, env what the object it ends in holds; reading
\* strategy.content or payload.title of a value that lacks it throws
WsHandlePopupMessage(c, v, env) ==
    IF ~c.autoHandlePopup
    THEN c
    ELSE IF v.k # "obj" \/ ~env.strategy
         THEN [c EXCEPT !.threw = TRUE]
         ELSE LET d == [c EXCEPT !.fx = Append(@, "showPopup(strategy.content)")]
              IN  IF env.payload THEN d ELSE [d EXCEPT !.threw = TRUE]

\* the body is one try block whose catch only logs
WsHandleMessage(c, v, msg) ==
    IF v.k = "obj" /\ msg.obj.type = "success"
    THEN LET m == JsonParse(JsString(msg.message))
         IN  IF m.k = "throw"
             THEN c
             ELSE [WsHandlePopupMessage(c, m, msg.inner) EXCEPT !.threw = FALSE]
    ELSE c

\* mutant: JSON.parse is outside the try block
WsOnMessage_NoCatch(c, msg) ==
    LET v == JsonParse(JsString(msg.data))
    IN  IF v.k = "throw"
        THEN [c EXCEPT !.threw = TRUE]
        ELSE [WsHandleMessage(c, v, msg) EXCEPT !.fx = Append(@, "onMessage")]

\* mutant: a wrapped envelope is not passed on to onMessage
WsOnMessage_Exclusive(c, msg) ==
    LET v == JsonParse(JsString(msg.data))
    IN  IF v.k = "throw"
        THEN c
        ELSE IF v.k = "obj" /\ msg.obj.type = "success"
             THEN WsHandleMessage(c, v, msg)
             ELSE [WsHandleMessage(c, v, msg) EXCEPT !.fx = Append(@, "onMessage")]

WsOnMessage(c, msg) ==
    LET v == JsonParse(JsString(msg.data))
    IN  IF v.k = "throw"
        THEN c
        ELSE [WsHandleMessage(c, v, msg) EXCEPT !.fx = Append(@, "onMessage")]

\* WebSocket.send as the browser implements it: InvalidStateError while the
\* socket is connecting, the data is queued for transmission while it is
\* open (throws says whether the call fails all the same), and silently
\* discarded once the socket is closing or closed
NativeSend(st, throws) ==
    CASE st = "CONNECTING" -> "throw"
      [] st = "OPEN"       -> IF throws THEN "throw" ELSE "written"
      [] OTHER             -> "dropped"

\* mutant: the readyState test is missing from the guard
WsSendOp_NoStateCheck(c, throws) ==
    IF c.websocket # "null"
    THEN LET r == NativeSend(c.websocket, throws)
         IN  CASE r = "written" -> [c EXCEPT !.fx = @ \o <<"send", "return true">>]
               [] r = "dropped" -> [c EXCEPT !.fx = Append(@, "return true")]
               [] OTHER         -> [c EXCEPT !.fx = Append(@, "return false")]
    ELSE [c EXCEPT !.fx = Append(@, "return false")]

WsSendOp(c, throws) ==
    IF c.websocket # "null" /\ c.websocket = "OPEN"
    THEN LET r == NativeSend(c.websocket, throws)
         IN  CASE r = "written" -> [c EXCEPT !.fx = @ \o <<"send", "return true">>]
               [] r = "dropped" -> [c EXCEPT !.fx = Append(@, "return true")]
               [] OTHER         -> [c EXCEPT !.fx = Append(@, "return false")]
    ELSE [c EXCEPT !.fx = Append(@, "return false")]

\* mutant: the readyState test is missing from the interval callback
WsHeartbeatOp_NoStateCheck(c, throws) ==
    IF c.websocket # "null"
    THEN [c EXCEPT !.fx = Append(@, "ping"),
                   !.threw = NativeSend(c.websocket, throws) = "throw"]
    ELSE c

\* the callback of the heartbeat interval; "ping" is its call of
\* websocket.send with the ping frame
WsHeartbeatOp(c, throws) ==
    IF c.websocket # "null" /\ c.websocket = "OPEN"
    THEN [c EXCEPT !.fx = Append(@, "ping"),
                   !.threw = NativeSend(c.websocket, throws) = "throw"]
    ELSE c

WsSetAutoHandlePopupOp(c, enabled) == [c EXCEPT !.autoHandlePopup = enabled]

\* mutant: the connection is cycled before config.sessionId is assigned
WsUpdateSessionIdOp_StaleUrl(c, id) ==
    LET d == IF WsIsConnected(c) THEN WsConnectOp(WsDisconnectOp(c)) ELSE c
    IN  [d EXCEPT !.sessionId = id]

WsUpdateSessionIdOp(c, id) ==
    LET d == [c EXCEPT !.sessionId = id]
    IN  IF WsIsConnected(d) THEN WsConnectOp(WsDisconnectOp(d)) ELSE d

\* write the record back to the variables; evt is the readyState the
\* connection had before the open, error or close event handled, msg the
\* inbound message handled
WsWrite(c, op, auto, idle, evt, msg) ==
    /\ c.ok
    /\ sessionId' = c.sessionId
    /\ urlSession' = c.urlSession
    /\ autoHandlePopup' = c.autoHandlePopup
    /\ effects' = IF c.threw THEN Append(c.fx, "throw") ELSE c.fx
    /\ evtState' = evt
    /\ lastMsg' = msg
    /\ websocket' = c.websocket
    /\ orphans' = c.orphans
    /\ retryAttempts' = c.retryAttempts
    /\ retryTimer' = c.retryTimer
    /\ orphanTimers' = c.orphanTimers
    /\ isConnecting' = c.isConnecting
    /\ heartbeatTimer' = c.heartbeatTimer
    /\ maxReports' = c.maxReports
    /\ lastOp' = op
    /\ prevAttempts' = retryAttempts
    /\ autoConnects' = auto
    /\ callerIdle' = idle
    /\ UNCHANGED <<cfgVars, eventSource, rmVars, nsdVars, monVars, trkVars>>

WsSet(c, op, auto, idle) == WsWrite(c, op, auto, idle, "none", NoMsg)

\* the connection that delivers an event: the one this.websocket refers to
\* ("current") or one of the orphans; WsTake removes it from where it is
\* (the current socket stays referenced, with readyState st2)
WsSources(states) ==
    {src \in {"current", "orphan"} \X states :
        IF src[1] = "current" THEN websocket = src[2] ELSE orphans[src[2]] > 0}

WsMove(c, src, st2) ==
    IF src[1] = "current"
    THEN [c EXCEPT !.websocket = st2]
    ELSE IF st2 \in LiveStates
         THEN [c EXCEPT !.orphans[src[2]] = @ - 1, !.orphans[st2] = @ + 1]
         ELSE [c EXCEPT !.orphans[src[2]] = @ - 1]

(* caller invocations *)
WsConnect ==
    /\ client = "WebSocketClient"
    /\ WsSet(WsConnectOp(WsCur), "connect", 0, FALSE)

WsReconnect ==
    /\ client = "WebSocketClient"
    /\ WsSet(WsReconnectOp(WsCur), "reconnect", 0, FALSE)

WsResetRetryAttempts ==
    /\ client = "WebSocketClient"
    /\ WsSet(WsResetRetryAttemptsOp(WsCur), "resetRetryAttempts", 0, callerIdle)

WsDisconnect ==
    /\ client = "WebSocketClient"
    /\ WsSet(WsDisconnectOp(WsCur), "disconnect", 0, TRUE)

WsUpdateSessionId ==
    /\ client = "WebSocketClient"
    /\ \E id \in 1..MaxSession :
        WsSet(WsUpdateSessionIdOp(WsCur, id), "updateSessionId", 0, FALSE)

(* callbacks of the host runtime *)
\* a retry timer fires, `() => { this.connect(); }`: the one this.retryTimer
\* refers to, or one whose handle was overwritten
WsRetryTimerFired ==
    /\ client = "WebSocketClient"
    /\ \E held \in BOOLEAN :
        /\ IF held THEN retryTimer = "pending" ELSE orphanTimers > 0
        /\ LET c0 == IF held THEN [WsCur EXCEPT !.retryTimer = "stale"]
                             ELSE [WsCur EXCEPT !.orphanTimers = @ - 1]
               c1 == WsConnectOp(c0)
           IN  WsSet(c1, "retryTimer", autoConnects + c1.created, callerIdle)

\* the open event of a socket
WsOpened ==
    /\ client = "WebSocketClient"
    /\ \E src \in WsSources({"CONNECTING"}) :
        WsWrite(WsOnOpen(WsMove(WsCur, src, "OPEN")), "onopen", 0, callerIdle,
                src[2], NoMsg)

\* a socket fails (handshake failure, connection lost, close() before it was
\* established): one task fires error and then an unclean close
WsFailed ==
    /\ client = "WebSocketClient"
    /\ \E src \in WsSources({"CONNECTING", "OPEN", "CLOSING_FAIL"}) :
        WsWrite(WsOnClose(WsOnError(WsMove(WsCur, src, "CLOSED")), FALSE),
                "onerror+onclose", autoConnects, callerIdle, src[2], NoMsg)

\* a socket completes a closing handshake: a clean close event
WsClosedClean ==
    /\ client = "WebSocketClient"
    /\ \E src \in WsSources({"OPEN", "CLOSING"}) :
        WsWrite(WsOnClose(WsMove(WsCur, src, "CLOSED"), TRUE),
                "onclose", autoConnects, callerIdle, src[2], NoMsg)

\* the same three events on a client whose callbacks may throw
WsOpenedThrowing ==
    /\ client = "WebSocketClient"
    /\ \E src \in WsSources({"CONNECTING"}), throwing \in SUBSET Callbacks :
        WsWrite(WsOnOpenCalling(WsMove(WsCur, src, "OPEN"), throwing), "onopen", 0,
                callerIdle, src[2], NoMsg)

WsFailedThrowing ==
    /\ client = "WebSocketClient"
    /\ \E src \in WsSources({"CONNECTING", "OPEN", "CLOSING_FAIL"}),
          throwing \in SUBSET Callbacks :
        WsWrite(WsOnCloseCalling(WsOnErrorCalling(WsMove(WsCur, src, "CLOSED"), throwing),
                                 FALSE, throwing),
                "onerror+onclose", autoConnects, callerIdle, src[2], NoMsg)

WsClosedCleanThrowing ==
    /\ client = "WebSocketClient"
    /\ \E src \in WsSources({"OPEN", "CLOSING"}), throwing \in SUBSET Callbacks :
        WsWrite(WsOnCloseCalling(WsMove(WsCur, src, "CLOSED"), TRUE, throwing),
                "onclose", autoConnects, callerIdle, src[2], NoMsg)

\* frames a socket can deliver: text that does not decode to an object, an
\* object that is not a wrapper, a wrapper whose message does not decode to an
\* object, and a wrapper around each envelope
WsFrames ==
    {Msg("frame", t, NoEnvelope, NoText, NoEnvelope) : t \in Texts \ {<<"obj">>}}
    \cup {Msg("frame", <<"obj">>, [NoEnvelope EXCEPT !.type = ty], NoText, NoEnvelope) :
            ty \in {"popup", "other"}}
    \cup {Msg("frame", <<"obj">>, [NoEnvelope EXCEPT !.type = "success"], m, NoEnvelope) :
            m \in {NoText} \cup (Texts \ {<<"obj">>})}
    \cup {Msg("frame", <<"obj">>, [NoEnvelope EXCEPT !.type = "success"], <<"obj">>, e) :
            e \in Envelopes}

\* the message event of a socket that is open or in its closing handshake
WsMessage ==
    /\ client = "WebSocketClient"
    /\ \E src \in WsSources({"OPEN", "CLOSING"}), msg \in WsFrames :
        WsWrite(WsOnMessage(WsCur, msg), "onmessage", autoConnects, callerIdle,
                "none", msg)

\* the caller sends data; the call of the native send may fail
WsSend ==
    /\ client = "WebSocketClient"
    /\ \E throws \in BOOLEAN :
        WsSet(WsSendOp(WsCur, throws), "send", autoConnects, callerIdle)

WsSetAutoHandlePopup ==
    /\ client = "WebSocketClient"
    /\ \E enabled \in BOOLEAN :
        WsSet(WsSetAutoHandlePopupOp(WsCur, enabled), "setAutoHandlePopup",
              autoConnects, callerIdle)

\* the heartbeat interval fires (it stays armed until clearInterval)
WsHeartbeatFired ==
    /\ client = "WebSocketClient"
    /\ heartbeatTimer
    /\ \E throws \in BOOLEAN :
        WsSet(WsHeartbeatOp(WsCur, throws), "heartbeat", autoConnects, callerIdle)

\* the connection lifecycle apart from the session id
WsLifecycle ==
    \/ WsConnect
    \/ WsReconnect
    \/ WsResetRetryAttempts
    \/ WsDisconnect
    \/ WsRetryTimerFired
    \/ WsOpened
    \/ WsFailed
    \/ WsClosedClean

WsNext ==
    \/ WsLifecycle
    \/ WsUpdateSessionId

(* -------------------- SSEClient (src/src/sse-client.ts) --------------- *)
\* An EventSource reports a transient failure with an error event while it
\* reconnects by itself (readyState CONNECTING) and a terminal one with an
\* error event in readyState CLOSED; after close() it delivers nothing.
SseCur ==
    [eventSource |-> eventSource, orphans |-> orphans, retryAttempts |-> retryAttempts,
     retryTimer |-> retryTimer, orphanTimers |-> orphanTimers,
     isConnecting |-> isConnecting, maxReports |-> maxReports,
     sessionId |-> sessionId, urlSession |-> urlSession,
     autoHandlePopup |-> autoHandlePopup, fx |-> <<>>, threw |-> FALSE,
     created |-> 0, ok |-> TRUE]

SseHandleRetry(c) ==
    IF c.retryAttempts >= OrDefault(maxRetryAttempts, DefaultMaxRetryAttempts)
    THEN [c EXCEPT !.maxReports = @ + 1, !.ok = c.ok /\ c.maxReports < MaxReports]
    ELSE ArmRetryTimer([c EXCEPT !.retryAttempts = @ + 1])

SseIsConnected(c) == c.eventSource = "OPEN"

SseConnectOp(c) ==
    IF c.isConnecting \/ c.eventSource = "OPEN"
    THEN c
    ELSE IF urlOk
         THEN [Orphan(c, c.eventSource) EXCEPT !.isConnecting = TRUE,
                                               !.eventSource = "CONNECTING",
                                               !.urlSession = c.sessionId,
                                               !.fx = Append(@, "new"),
                                               !.created = @ + 1]
         ELSE SseHandleRetry([c EXCEPT !.isConnecting = FALSE])

SseOnOpen(c) == [c EXCEPT !.isConnecting = FALSE, !.retryAttempts = 0, !.maxReports = 0]

\* mutant: handleRetry is called whatever the readyState
SseOnError_AlwaysRetry(c) == SseHandleRetry([c EXCEPT !.isConnecting = FALSE])

\* the handler reads the readyState of this.eventSource, whichever
\* EventSource raised the event
SseOnError(c) ==
    LET d == [c EXCEPT !.isConnecting = FALSE]
    IN  IF d.eventSource = "CLOSED" THEN SseHandleRetry(d) ELSE d

SseOnOpenCalling(c, throwing) == Call(SseOnOpen(c), "onOpen", throwing)

SseOnErrorCalling(c, throwing) ==
    LET d == Call([c EXCEPT !.isConnecting = FALSE], "onError", throwing)
    IN  IF "onError" \in throwing
        THEN d
        ELSE IF d.eventSource = "CLOSED" THEN SseHandleRetry(d) ELSE d

SseDisconnectOp(c) ==
    LET a == ClearRetryTimer(c)
        b == IF a.eventSource # "null"
             THEN [a EXCEPT !.eventSource = "null", !.urlSession = 0,
                            !.fx = Append(@, "close")]
             ELSE a
    IN  [b EXCEPT !.isConnecting = FALSE, !.retryAttempts = 0, !.maxReports = 0]

SseReconnectOp(c) ==
    SseConnectOp([ClearRetryTimer(c) EXCEPT !.retryAttempts = 0, !.maxReports = 0])

SseResetRetryAttemptsOp(c) ==
    ClearRetryTimer([c EXCEPT !.retryAttempts = 0, !.maxReports = 0])

\* mutant: config.autoHandlePopup is not consulted
SseHandlePopupMessage_AlwaysRenders(c, v, env) ==
    IF v.k # "obj" \/ ~env.strategy
    THEN [c EXCEPT !.threw = TRUE]
    ELSE LET d == [c EXCEPT !.fx = Append(@, "showPopup(strategy.content)")]
         IN  IF env.payload THEN d ELSE [d EXCEPT !.threw = TRUE]

SseHandlePopupMessage(c, v, env) ==
    IF ~c.autoHandlePopup
    THEN c
    ELSE IF v.k # "obj" \/ ~env.strategy
         THEN [c EXCEPT !.threw = TRUE]
         ELSE LET d == [c EXCEPT !.fx = Append(@, "showPopup(strategy.content)")]
              IN  IF env.payload THEN d ELSE [d EXCEPT !.threw = TRUE]

\* what both listeners do with the decoded value: an exception thrown by
\* handlePopupMessage skips onMessage and is caught
SseDispatch(c, v, msg) ==
    IF v.k = "throw"
    THEN c
    ELSE LET d == SseHandlePopupMessage(c, v, msg.obj)
         IN  IF d.threw
             THEN [d EXCEPT !.threw = FALSE]
             ELSE [d EXCEPT !.fx = Append(@, "onMessage")]

\* the listener of the named channel "popup"
SsePopupListener(c, msg) == SseDispatch(c, JsonParse(JsString(msg.data)), msg)

\* eventSource.onmessage, the default channel
SseOnMessage(c, msg) == SseDispatch(c, JsonParse(JsonParse(JsString(msg.data))), msg)

SseSetAutoHandlePopupOp(c, enabled) == [c EXCEPT !.autoHandlePopup = enabled]

SseUpdateSessionIdOp(c, id) ==
    LET d == [c EXCEPT !.sessionId = id]
    IN  IF SseIsConnected(d) THEN SseConnectOp(SseDisconnectOp(d)) ELSE d

SseWrite(c, op, auto, idle, evt, msg) ==
    /\ c.ok
    /\ sessionId' = c.sessionId
    /\ urlSession' = c.urlSession
    /\ autoHandlePopup' = c.autoHandlePopup
    /\ effects' = IF c.threw THEN Append(c.fx, "throw") ELSE c.fx
    /\ evtState' = evt
    /\ lastMsg' = msg
    /\ eventSource' = c.eventSource
    /\ orphans' = c.orphans
    /\ retryAttempts' = c.retryAttempts
    /\ retryTimer' = c.retryTimer
    /\ orphanTimers' = c.orphanTimers
    /\ isConnecting' = c.isConnecting
    /\ maxReports' = c.maxReports
    /\ lastOp' = op
    /\ prevAttempts' = retryAttempts
    /\ autoConnects' = auto
    /\ callerIdle' = idle
    /\ UNCHANGED <<cfgVars, websocket, heartbeatTimer, rmVars, nsdVars, monVars, trkVars>>

SseSet(c, op, auto, idle) == SseWrite(c, op, auto, idle, "none", NoMsg)

SseSources(states) ==
    {src \in {"current", "orphan"} \X states :
        IF src[1] = "current" THEN eventSource = src[2] ELSE orphans[src[2]] > 0}

SseMove(c, src, st2) ==
    IF src[1] = "current"
    THEN [c EXCEPT !.eventSource = st2]
    ELSE IF st2 \in LiveStates
         THEN [c EXCEPT !.orphans[src[2]] = @ - 1, !.orphans[st2] = @ + 1]
         ELSE [c EXCEPT !.orphans[src[2]] = @ - 1]

(* caller invocations *)
SseConnect ==
    /\ client = "SSEClient"
    /\ SseSet(SseConnectOp(SseCur), "connect", 0, FALSE)

SseReconnect ==
    /\ client = "SSEClient"
    /\ SseSet(SseReconnectOp(SseCur), "reconnect", 0, FALSE)

SseResetRetryAttempts ==
    /\ client = "SSEClient"
    /\ SseSet(SseResetRetryAttemptsOp(SseCur), "resetRetryAttempts", 0, callerIdle)

SseDisconnect ==
    /\ client = "SSEClient"
    /\ SseSet(SseDisconnectOp(SseCur), "disconnect", 0, TRUE)

SseUpdateSessionId ==
    /\ client = "SSEClient"
    /\ \E id \in 1..MaxSession :
        SseSet(SseUpdateSessionIdOp(SseCur, id), "updateSessionId", 0, FALSE)

(* callbacks of the host runtime *)
SseRetryTimerFired ==
    /\ client = "SSEClient"
    /\ \E held \in BOOLEAN :
        /\ IF held THEN retryTimer = "pending" ELSE orphanTimers > 0
        /\ LET c0 == IF held THEN [SseCur EXCEPT !.retryTimer = "stale"]
                             ELSE [SseCur EXCEPT !.orphanTimers = @ - 1]
               c1 == SseConnectOp(c0)
           IN  SseSet(c1, "retryTimer", autoConnects + c1.created, callerIdle)

\* the open event of an EventSource (first connection or native reconnection)
SseOpened ==
    /\ client = "SSEClient"
    /\ \E src \in SseSources({"CONNECTING"}) :
        SseWrite(SseOnOpen(SseMove(SseCur, src, "OPEN")), "onopen", 0, callerIdle,
                 src[2], NoMsg)

\* a transient failure: the EventSource goes back to CONNECTING and fires error
SseTransientError ==
    /\ client = "SSEClient"
    /\ \E src \in SseSources({"CONNECTING", "OPEN"}) :
        SseWrite(SseOnError(SseMove(SseCur, src, "CONNECTING")), "onerror",
                 autoConnects, callerIdle, src[2], NoMsg)

\* a terminal failure: the EventSource goes to CLOSED and fires error
SseFailed ==
    /\ client = "SSEClient"
    /\ \E src \in SseSources({"CONNECTING", "OPEN"}) :
        SseWrite(SseOnError(SseMove(SseCur, src, "CLOSED")), "onerror",
                 autoConnects, callerIdle, src[2], NoMsg)

\* the same three events on a client whose callbacks may throw
SseOpenedThrowing ==
    /\ client = "SSEClient"
    /\ \E src \in SseSources({"CONNECTING"}), throwing \in SUBSET Callbacks :
        SseWrite(SseOnOpenCalling(SseMove(SseCur, src, "OPEN"), throwing), "onopen", 0,
                 callerIdle, src[2], NoMsg)

SseTransientErrorThrowing ==
    /\ client = "SSEClient"
    /\ \E src \in SseSources({"CONNECTING", "OPEN"}), throwing \in SUBSET Callbacks :
        SseWrite(SseOnErrorCalling(SseMove(SseCur, src, "CONNECTING"), throwing), "onerror",
                 autoConnects, callerIdle, src[2], NoMsg)

SseFailedThrowing ==
    /\ client = "SSEClient"
    /\ \E src \in SseSources({"CONNECTING", "OPEN"}), throwing \in SUBSET Callbacks :
        SseWrite(SseOnErrorCalling(SseMove(SseCur, src, "CLOSED"), throwing), "onerror",
                 autoConnects, callerIdle, src[2], NoMsg)

\* JSON.parse calls the handler of a channel applies to event.data
Decodings(channel) == IF channel = "popup" THEN 1 ELSE 2

\* events an EventSource can deliver on a channel: text that ends in no
\* object, each envelope in each encoding the handler can get through, and
\* text encoded more often than that (whose object the handler never reads)
SseEvents(channel) ==
    {Msg(channel, t, NoEnvelope, NoText, NoEnvelope) :
        t \in {u \in Texts : u[Len(u)] = "bad" \/ Len(u) > Decodings(channel)}}
    \cup {Msg(channel, t, e, NoText, NoEnvelope) :
            t \in {u \in Texts : u[Len(u)] = "obj" /\ Len(u) <= Decodings(channel)},
            e \in Envelopes}

SsePopupEvent ==
    /\ client = "SSEClient"
    /\ \E src \in SseSources({"OPEN"}), msg \in SseEvents("popup") :
        SseWrite(SsePopupListener(SseCur, msg), "popup", autoConnects, callerIdle,
                 "none", msg)

SseMessage ==
    /\ client = "SSEClient"
    /\ \E src \in SseSources({"OPEN"}), msg \in SseEvents("message") :
        SseWrite(SseOnMessage(SseCur, msg), "onmessage", autoConnects, callerIdle,
                 "none", msg)

SseSetAutoHandlePopup ==
    /\ client = "SSEClient"
    /\ \E enabled \in BOOLEAN :
        SseSet(SseSetAutoHandlePopupOp(SseCur, enabled), "setAutoHandlePopup",
               autoConnects, callerIdle)

SseLifecycle ==
    \/ SseConnect
    \/ SseReconnect
    \/ SseResetRetryAttempts
    \/ SseDisconnect
    \/ SseRetryTimerFired
    \/ SseOpened
    \/ SseTransientError
    \/ SseFailed

SseNext ==
    \/ SseLifecycle
    \/ SseUpdateSessionId

(* ------------- ReconnectionManager (src/unnamed/part_001) ------------- *)
\* called is the set of config callbacks the running operation has invoked
RmCur ==
    [reconnectAttempts |-> reconnectAttempts, reconnectTimer |-> reconnectTimer,
     rmOrphanTimers |-> rmOrphanTimers, isReconnecting |-> isReconnecting,
     connectionStartTime |-> connectionStartTime,
     lastDisconnectionTime |-> lastDisconnectionTime,
     maxAttempts |-> maxAttempts, maxReports |-> maxReports,
     delay |-> NoDelay, called |-> {}, ok |-> TRUE]

\* Math.min, Math.max
Min(a, b) == IF a <= b THEN a ELSE b

Max(a, b) == IF a >= b THEN a ELSE b

\* Math.pow(b, e) for an integer e >= 0
RECURSIVE Pow(_, _)
Pow(b, e) == IF e = 0 THEN 1 ELSE b * Pow(b, e - 1)

\* mutant: the exponent is the attempt count, not the attempt count - 1
cappedDelay_ExponentOffByOne(n) == Min(baseDelay * Pow(backoffMultiplier, n), maxDelay)

\* `Math.min(exponentialDelay, this.config.maxDelay)` at attempt n
cappedDelay(n) == Min(baseDelay * Pow(backoffMultiplier, n - 1), maxDelay)

\* `(Math.random() - 0.5) * this.config.jitterRange` when Math.random()
\* returns random / RandomSteps
jitter(random) == ((2 * random - RandomSteps) * jitterRange) \div (2 * RandomSteps)

\* mutant: the delay is not floored at 0
calculateReconnectDelay_NoFloor(c, random) ==
    cappedDelay(c.reconnectAttempts) + jitter(random)

calculateReconnectDelay(c, random) ==
    Max(0, cappedDelay(c.reconnectAttempts) + jitter(random))

\* `this.reconnectTimer = setTimeout(...)`
RmArmTimer(c) ==
    [c EXCEPT !.reconnectTimer = "pending",
              !.rmOrphanTimers = IF c.reconnectTimer = "pending" THEN @ + 1 ELSE @,
              !.ok = c.ok /\ PendingTimers(c.reconnectTimer, c.rmOrphanTimers) < MaxTimers]

\* the attempt is counted, the delay computed and the timer armed
ScheduleAttempt(c, random) ==
    LET d == [c EXCEPT !.isReconnecting = TRUE, !.reconnectAttempts = @ + 1]
    IN  RmArmTimer([d EXCEPT !.delay = calculateReconnectDelay(d, random),
                             !.called = @ \cup {"onReconnectionAttempt"}])

\* mutant: off-by-one in the exhaustion test (`>` for `>=`)
startReconnection_OffByOne(c, random) ==
    IF c.isReconnecting \/ c.reconnectAttempts > c.maxAttempts
    THEN IF c.reconnectAttempts > c.maxAttempts
         THEN [c EXCEPT !.called = @ \cup {"onMaxAttemptsReached"},
                        !.maxReports = @ + 1,
                        !.ok = c.ok /\ c.maxReports < MaxReports]
         ELSE c
    ELSE ScheduleAttempt(c, random)

\* mutant: the isReconnecting test is missing from the guard
startReconnection_NoReentryGuard(c, random) ==
    IF c.reconnectAttempts >= c.maxAttempts
    THEN [c EXCEPT !.called = @ \cup {"onMaxAttemptsReached"},
                   !.maxReports = @ + 1,
                   !.ok = c.ok /\ c.maxReports < MaxReports]
    ELSE ScheduleAttempt(c, random)

startReconnection(c, random) ==
    IF c.isReconnecting \/ c.reconnectAttempts >= c.maxAttempts
    THEN IF c.reconnectAttempts >= c.maxAttempts
         THEN [c EXCEPT !.called = @ \cup {"onMaxAttemptsReached"},
                        !.maxReports = @ + 1,
                        !.ok = c.ok /\ c.maxReports < MaxReports]
         ELSE c
    ELSE ScheduleAttempt(c, random)

resetReconnectionState(c) ==
    [c EXCEPT !.reconnectAttempts = 0, !.isReconnecting = FALSE,
              !.reconnectTimer = "null", !.maxReports = 0]

\* mutant: the times are recorded but resetReconnectionState() is not called
onConnectionSuccess_NoReset(c) ==
    [c EXCEPT !.connectionStartTime = now, !.lastDisconnectionTime = NoTime]

onConnectionSuccess(c) ==
    resetReconnectionState([c EXCEPT !.connectionStartTime = now,
                                     !.lastDisconnectionTime = NoTime])

onConnectionLost(c) == [c EXCEPT !.lastDisconnectionTime = now]

\* mutant: startReconnection is called without resetReconnectionState
forceReconnection_NoReset(c, random) == startReconnection(c, random)

forceReconnection(c, random) == startReconnection(resetReconnectionState(c), random)

\* mutant: the timer is cleared but isReconnecting is left as it was
stopReconnection_KeepsFlag(c) == [c EXCEPT !.reconnectTimer = "null"]

\* mutant: the attempt counter is reset as well
stopReconnection_ResetsCounter(c) ==
    [c EXCEPT !.reconnectTimer = "null", !.isReconnecting = FALSE, !.reconnectAttempts = 0]

stopReconnection(c) == [c EXCEPT !.reconnectTimer = "null", !.isReconnecting = FALSE]

destroy(c) ==
    [resetReconnectionState(stopReconnection(c)) EXCEPT
        !.connectionStartTime = NoTime, !.lastDisconnectionTime = NoTime]

\* mutant: remainingAttempts is not floored at 0
getReconnectionStats_NoFloor(c) ==
    [totalAttempts |-> c.reconnectAttempts,
     maxAttempts |-> c.maxAttempts,
     remainingAttempts |-> c.maxAttempts - c.reconnectAttempts,
     isMaxAttemptsReached |-> c.reconnectAttempts >= c.maxAttempts]

getReconnectionStats(c) ==
    [totalAttempts |-> c.reconnectAttempts,
     maxAttempts |-> c.maxAttempts,
     remainingAttempts |-> Max(0, c.maxAttempts - c.reconnectAttempts),
     isMaxAttemptsReached |-> c.reconnectAttempts >= c.maxAttempts]

\* write the record back to the variables; returned is what the operation
\* returned
RmWrite(c, op, returned) ==
    /\ c.ok
    /\ stats' = returned
    /\ reconnectAttempts' = c.reconnectAttempts
    /\ reconnectTimer' = c.reconnectTimer
    /\ rmOrphanTimers' = c.rmOrphanTimers
    /\ isReconnecting' = c.isReconnecting
    /\ connectionStartTime' = c.connectionStartTime
    /\ lastDisconnectionTime' = c.lastDisconnectionTime
    /\ maxAttempts' = c.maxAttempts
    /\ maxReports' = c.maxReports
    /\ called' = c.called
    /\ delay' = c.delay
    /\ lastOp' = op
    /\ prevAttempts' = reconnectAttempts
    /\ UNCHANGED <<cfgVars, clientVars, nsdVars, monVars, trkVars, delayCfgVars>>

RmSet(c, op) == RmWrite(c, op, NoStats)

RmStartReconnection ==
    /\ client = "ReconnectionManager"
    /\ \E random \in 0..(RandomSteps - 1) :
        RmSet(startReconnection(RmCur, random), "startReconnection")
    /\ UNCHANGED now

\* the reconnect timer fires: `() => { this.isReconnecting = false; connectCallback(); }`
RmTimerFired ==
    /\ client = "ReconnectionManager"
    /\ \E held \in BOOLEAN :
        /\ IF held THEN reconnectTimer = "pending" ELSE rmOrphanTimers > 0
        /\ LET c0 == IF held THEN [RmCur EXCEPT !.reconnectTimer = "stale"]
                             ELSE [RmCur EXCEPT !.rmOrphanTimers = @ - 1]
           IN  RmSet([c0 EXCEPT !.isReconnecting = FALSE, !.called = {"connectCallback"}],
                     "reconnectTimer")
    /\ UNCHANGED now

RmOnConnectionSuccess ==
    /\ client = "ReconnectionManager"
    /\ RmSet(onConnectionSuccess(RmCur), "onConnectionSuccess")
    /\ UNCHANGED now

RmOnConnectionLost ==
    /\ client = "ReconnectionManager"
    /\ RmSet(onConnectionLost(RmCur), "onConnectionLost")
    /\ UNCHANGED now

RmResetReconnectionState ==
    /\ client = "ReconnectionManager"
    /\ RmSet(resetReconnectionState(RmCur), "resetReconnectionState")
    /\ UNCHANGED now

RmForceReconnection ==
    /\ client = "ReconnectionManager"
    /\ \E random \in 0..(RandomSteps - 1) :
        RmSet(forceReconnection(RmCur, random), "forceReconnection")
    /\ UNCHANGED now

RmStopReconnection ==
    /\ client = "ReconnectionManager"
    /\ RmSet(stopReconnection(RmCur), "stopReconnection")
    /\ UNCHANGED now

\* updateConfig({maxAttempts: n})
RmUpdateConfig ==
    /\ client = "ReconnectionManager"
    /\ \E n \in 0..MaxAttemptsCfg :
        RmSet([RmCur EXCEPT !.maxAttempts = n], "updateConfig")
    /\ UNCHANGED now

RmDestroy ==
    /\ client = "ReconnectionManager"
    /\ RmSet(destroy(RmCur), "destroy")
    /\ UNCHANGED now

RmGetReconnectionStats ==
    /\ client = "ReconnectionManager"
    /\ RmWrite(RmCur, "getReconnectionStats", getReconnectionStats(RmCur))
    /\ UNCHANGED now

\* Date.now() advances between two callbacks
RmTick ==
    /\ client = "ReconnectionManager"
    /\ now < MaxNow
    /\ now' = now + 1
    /\ lastOp' = "tick"
    /\ prevAttempts' = reconnectAttempts
    /\ called' = {}
    /\ delay' = NoDelay
    /\ stats' = NoStats
    /\ UNCHANGED <<cfgVars, clientVars, nsdVars, monVars, trkVars, delayCfgVars, reconnectAttempts, reconnectTimer, rmOrphanTimers,
                   isReconnecting, connectionStartTime, lastDisconnectionTime,
                   maxAttempts, maxReports>>

RmNext ==
    \/ RmStartReconnection
    \/ RmTimerFired
    \/ RmOnConnectionSuccess
    \/ RmOnConnectionLost
    \/ RmResetReconnectionState
    \/ RmForceReconnection
    \/ RmStopReconnection
    \/ RmUpdateConfig
    \/ RmDestroy
    \/ RmGetReconnectionStats
    \/ RmTick

(* ------------- NetworkStateDetector (src/unnamed/part_001) ------------ *)
\* callbacks a caller can register
ListenerIds == 1..MaxListeners

\* notified entry of a listener call that threw
Thrown == 0

addListener(l, callback) == Append(l, callback)

\* Array.prototype.indexOf, counted from 1 (0 = not found)
IndexOf(l, callback) ==
    IF \E i \in DOMAIN l : l[i] = callback
    THEN CHOOSE i \in DOMAIN l : l[i] = callback /\ \A j \in 1..(i - 1) : l[j] # callback
    ELSE 0

removeListener(l, callback) ==
    LET index == IndexOf(l, callback)
    IN  IF index > 0
        THEN SubSeq(l, 1, index - 1) \o SubSeq(l, index + 1, Len(l))
        ELSE l

\* `this.listeners.forEach(callback => callback(isOnline))` when the listeners
\* in throwing throw: the calls made, in order; an exception ends the loop
RECURSIVE notifyListeners(_, _)
notifyListeners(l, throwing) ==
    IF l = <<>>
    THEN <<>>
    ELSE IF Head(l) \in throwing
         THEN <<Head(l), Thrown>>
         ELSE <<Head(l)>> \o notifyListeners(Tail(l), throwing)

\* what a listener does when it is called: it returns, throws, or calls
\* removeListener or addListener of the detector and returns
Return == [do |-> "return", callback |-> 0]

Behaviours ==
    {Return, [do |-> "throw", callback |-> 0]}
    \cup [do : {"removeListener", "addListener"}, callback : ListenerIds]

NoReentry == [callback \in ListenerIds |-> Return]

\* `this.listeners.forEach(callback => callback(isOnline))`, from index k on:
\* Array.prototype.forEach visits the indices below the length the array had
\* when the loop started, skips an index the array no longer has, and reads
\* each element when its turn comes; does says what each listener does
RECURSIVE forEach(_, _, _, _, _)
forEach(l, k, len, does, n) ==
    IF k > len
    THEN [listeners |-> l, notified |-> n]
    ELSE IF k > Len(l)
         THEN forEach(l, k + 1, len, does, n)
         ELSE LET callback == l[k]
                  b == does[callback]
              IN  CASE b.do = "throw" ->
                         [listeners |-> l, notified |-> n \o <<callback, Thrown>>]
                    [] b.do = "removeListener" ->
                         forEach(removeListener(l, b.callback), k + 1, len, does,
                                 Append(n, callback))
                    [] b.do = "addListener" ->
                         forEach(addListener(l, b.callback), k + 1, len, does,
                                 Append(n, callback))
                    [] OTHER -> forEach(l, k + 1, len, does, Append(n, callback))

NsdWrite(l, callback, n, arg, does, op) ==
    /\ listeners' = l
    /\ callbackArg' = callback
    /\ notified' = n
    /\ isOnline' = arg
    /\ reentry' = does
    /\ lastOp' = op
    /\ UNCHANGED <<cfgVars, clientVars, rmVars, monVars, trkVars, prevAttempts, maxReports>>

NsdSet(l, n, op) == NsdWrite(l, 0, n, "none", NoReentry, op)

NsdAddListener ==
    /\ client = "NetworkStateDetector"
    /\ Len(listeners) < MaxListeners
    /\ \E callback \in ListenerIds :
        NsdWrite(addListener(listeners, callback), callback, <<>>, "none", NoReentry,
                 "addListener")

NsdRemoveListener ==
    /\ client = "NetworkStateDetector"
    /\ \E callback \in ListenerIds :
        NsdWrite(removeListener(listeners, callback), callback, <<>>, "none", NoReentry,
                 "removeListener")

\* the window event 'online'
NsdOnline ==
    /\ client = "NetworkStateDetector"
    /\ \E throwing \in SUBSET ListenerIds :
        NsdWrite(listeners, 0, notifyListeners(listeners, throwing), "true", NoReentry,
                 "online")

\* the window event 'offline'
NsdOffline ==
    /\ client = "NetworkStateDetector"
    /\ \E throwing \in SUBSET ListenerIds :
        NsdWrite(listeners, 0, notifyListeners(listeners, throwing), "false", NoReentry,
                 "offline")

NsdDestroy ==
    /\ client = "NetworkStateDetector"
    /\ NsdSet(<<>>, <<>>, "destroy")

\* the window events 'online' and 'offline' when the listeners may call the
\* detector from inside their callback
NsdOnlineReentrant ==
    /\ client = "NetworkStateDetector"
    /\ \E does \in [ListenerIds -> Behaviours] :
        LET r == forEach(listeners, 1, Len(listeners), does, <<>>)
        IN  /\ Len(r.listeners) <= MaxListeners
            /\ NsdWrite(r.listeners, 0, r.notified, "true", does, "online")

NsdOfflineReentrant ==
    /\ client = "NetworkStateDetector"
    /\ \E does \in [ListenerIds -> Behaviours] :
        LET r == forEach(listeners, 1, Len(listeners), does, <<>>)
        IN  /\ Len(r.listeners) <= MaxListeners
            /\ NsdWrite(r.listeners, 0, r.notified, "false", does, "offline")

NsdNext ==
    \/ NsdAddListener
    \/ NsdRemoveListener
    \/ NsdOnline
    \/ NsdOffline
    \/ NsdDestroy

(* ----------- ReconnectionMonitor (src/src/sse-client.ts) -------------- *)
\* the listener setupNetworkMonitoring registers with the detector
MonitorListener == 1

\* duration of an event recorded without one (undefined), and
\* lastConnectionDuration = null
NoDuration == -1

\* durations a caller reports
Durations == {NoDuration, 0, MaxDuration}

\* a JavaScript number that is the quotient of two integers
Quotient(a, b) == [num |-> a, den |-> b]

\* the metrics the constructor and resetMetrics assign
InitialMetrics ==
    [totalConnections |-> 0, successfulConnections |-> 0, failedConnections |-> 0,
     totalReconnectionAttempts |-> 0, averageReconnectionTime |-> Quotient(0, 1),
     lastConnectionDuration |-> NoDuration, uptime |-> 0]

\* the two clients a monitor can be given, none of them monitored
Unmonitored == [k \in {"WebSocket", "SSE"} |-> "unmonitored"]

\* the fields of the monitor as a record; manager is the ReconnectionManager
\* it wraps, logged lists the log methods the running operation called
MonCur ==
    [connectionHistory |-> connectionHistory, metrics |-> metrics,
     startTime |-> startTime, manager |-> RmCur, logged |-> <<>>, ok |-> TRUE]

\* a duration as a condition (`e.duration`, `e.duration || 0`): undefined and
\* 0 are false
Truthy(duration) == duration \notin {NoDuration, 0}

IsConnect(e) == e.type = "connect"

IsConnectSuccess(e) == e.type = "connect" /\ e.success

IsConnectFailure(e) == e.type = "connect" /\ ~e.success

\* `e.type === 'reconnect' && e.duration`
IsTimedReconnect(e) == e.type = "reconnect" /\ Truthy(e.duration)

\* `reduce((sum, e) => sum + (e.duration || 0), 0)`
RECURSIVE reduce(_)
reduce(events) ==
    IF events = <<>>
    THEN 0
    ELSE (IF Truthy(Head(events).duration) THEN Head(events).duration ELSE 0)
         + reduce(Tail(events))

updateMetrics(c) ==
    LET h == c.connectionHistory
        reconnectEvents == SelectSeq(h, IsTimedReconnect)
        connects == SelectSeq(h, IsConnectSuccess)
        lastConnectEvent == connects[Len(connects)]
    IN  [c EXCEPT
            !.metrics.uptime = now - c.startTime,
            !.metrics.totalConnections = Len(SelectSeq(h, IsConnect)),
            !.metrics.successfulConnections = Len(connects),
            !.metrics.failedConnections = Len(SelectSeq(h, IsConnectFailure)),
            !.metrics.averageReconnectionTime =
                IF Len(reconnectEvents) > 0
                THEN Quotient(reduce(reconnectEvents), Len(reconnectEvents))
                ELSE @,
            !.metrics.lastConnectionDuration =
                IF Len(connects) > 0
                THEN IF Truthy(lastConnectEvent.duration)
                     THEN lastConnectEvent.duration
                     ELSE NoDuration
                ELSE @]

recordConnectionEvent(c, type, success, duration) ==
    LET event == [timestamp |-> now, type |-> type, success |-> success,
                  duration |-> duration]
        d == updateMetrics([c EXCEPT !.connectionHistory = Append(@, event),
                                     !.ok = c.ok /\ Len(c.connectionHistory) < MaxHistory])
    IN  [d EXCEPT !.logged = Append(@, "logConnectionEvent")]

getMetrics(c) == updateMetrics(c)

\* the onReconnectionAttempt and onMaxAttemptsReached the constructor gives
\* the manager, applied to the callbacks the manager called
MonManagerCallbacks(c) ==
    LET d == IF "onReconnectionAttempt" \in c.manager.called
             THEN [c EXCEPT !.metrics.totalReconnectionAttempts = @ + 1,
                            !.ok = c.ok /\ c.metrics.totalReconnectionAttempts < MaxCounted,
                            !.logged = Append(@, "logReconnectionAttempt")]
             ELSE c
    IN  IF "onMaxAttemptsReached" \in c.manager.called
        THEN [d EXCEPT !.logged = Append(@, "logMaxAttemptsReached")]
        ELSE d

\* ReconnectionMonitor.forceReconnection
MonForceReconnectionOp(c, random) ==
    MonManagerCallbacks([c EXCEPT !.manager = forceReconnection(@, random)])

\* mutant: the wrapped manager is not reset
resetMetrics_KeepsManager(c) ==
    [c EXCEPT !.connectionHistory = <<>>, !.startTime = now,
              !.metrics = InitialMetrics]

resetMetrics(c) ==
    [c EXCEPT !.connectionHistory = <<>>, !.startTime = now,
              !.metrics = InitialMetrics,
              !.manager = resetReconnectionState(@)]

\* ReconnectionMonitor.destroy (the detector is destroyed in the action)
MonDestroyOp(c) == [c EXCEPT !.manager = destroy(@)]

\* the listener setupNetworkMonitoring registers with the detector
MonNetworkListener(c, online) ==
    [c EXCEPT !.logged = Append(@, IF online THEN "logNetworkRecovery"
                                             ELSE "logNetworkLoss")]

\* write the record back to the variables; l, n and arg are the listeners of
\* the detector, the ones it called and the argument it last called them
\* with, m the monitored clients
MonWrite(c, l, n, arg, m, op) ==
    /\ c.ok /\ c.manager.ok
    /\ connectionHistory' = c.connectionHistory
    /\ metrics' = c.metrics
    /\ startTime' = c.startTime
    /\ monitored' = m
    /\ logged' = c.logged
    /\ listeners' = l
    /\ isOnline' = arg
    /\ notified' = n
    /\ stats' = NoStats
    /\ reconnectAttempts' = c.manager.reconnectAttempts
    /\ reconnectTimer' = c.manager.reconnectTimer
    /\ rmOrphanTimers' = c.manager.rmOrphanTimers
    /\ isReconnecting' = c.manager.isReconnecting
    /\ connectionStartTime' = c.manager.connectionStartTime
    /\ lastDisconnectionTime' = c.manager.lastDisconnectionTime
    /\ maxAttempts' = c.manager.maxAttempts
    /\ maxReports' = c.manager.maxReports
    /\ called' = c.manager.called
    /\ delay' = c.manager.delay
    /\ lastOp' = op
    /\ prevAttempts' = reconnectAttempts
    /\ UNCHANGED <<cfgVars, clientVars, trkVars, delayCfgVars, now, callbackArg, reentry>>

MonSet(c, op) == MonWrite(c, listeners, <<>>, isOnline, monitored, op)

MonRecordConnectionEvent ==
    /\ client = "ReconnectionMonitor"
    /\ \E type \in {"connect", "disconnect", "reconnect"}, success \in BOOLEAN,
          duration \in Durations :
        MonSet(recordConnectionEvent(MonCur, type, success, duration),
               "recordConnectionEvent")

MonGetMetrics ==
    /\ client = "ReconnectionMonitor"
    /\ MonSet(getMetrics(MonCur), "getMetrics")

MonForceReconnection ==
    /\ client = "ReconnectionMonitor"
    /\ \E random \in 0..(RandomSteps - 1) :
        MonSet(MonForceReconnectionOp(MonCur, random), "forceReconnection")

\* the reconnect timer of the wrapped manager fires
MonTimerFired ==
    /\ client = "ReconnectionMonitor"
    /\ \E held \in BOOLEAN :
        /\ IF held THEN reconnectTimer = "pending" ELSE rmOrphanTimers > 0
        /\ LET c0 == IF held THEN [RmCur EXCEPT !.reconnectTimer = "stale"]
                             ELSE [RmCur EXCEPT !.rmOrphanTimers = @ - 1]
           IN  MonSet([MonCur EXCEPT
                          !.manager = [c0 EXCEPT !.isReconnecting = FALSE,
                                                 !.called = {"connectCallback"}]],
                      "reconnectTimer")

MonResetMetrics ==
    /\ client = "ReconnectionMonitor"
    /\ MonSet(resetMetrics(MonCur), "resetMetrics")

MonDestroy ==
    /\ client = "ReconnectionMonitor"
    /\ MonWrite(MonDestroyOp(MonCur), <<>>, <<>>, isOnline, monitored, "destroy")

\* monitorWebSocket(wsClient) and monitorSSE(sseClient), given a client that
\* is connected or not
MonMonitorWebSocket ==
    /\ client = "ReconnectionMonitor"
    /\ \E st \in {"connected", "disconnected"} :
        MonWrite([MonCur EXCEPT !.logged = Append(@, "logClientMonitoring")],
                 listeners, <<>>, isOnline, [monitored EXCEPT !["WebSocket"] = st],
                 "monitorWebSocket")

MonMonitorSSE ==
    /\ client = "ReconnectionMonitor"
    /\ \E st \in {"connected", "disconnected"} :
        MonWrite([MonCur EXCEPT !.logged = Append(@, "logClientMonitoring")],
                 listeners, <<>>, isOnline, [monitored EXCEPT !["SSE"] = st],
                 "monitorSSE")

\* the connection of a monitored client opens or is lost; the monitor is not
\* told
MonClientChanged ==
    /\ client = "ReconnectionMonitor"
    /\ \E k \in DOMAIN monitored :
        /\ monitored[k] # "unmonitored"
        /\ MonWrite(MonCur, listeners, <<>>, isOnline,
                    [monitored EXCEPT ![k] = IF @ = "connected" THEN "disconnected"
                                                                ELSE "connected"],
                    "clientChanged")

\* the window events 'online' and 'offline': the detector calls its
\* listeners, which are the listener of the monitor until destroy()
MonOnline ==
    /\ client = "ReconnectionMonitor"
    /\ MonWrite(IF listeners # <<>> THEN MonNetworkListener(MonCur, TRUE) ELSE MonCur,
                listeners, notifyListeners(listeners, {}), "true", monitored, "online")

MonOffline ==
    /\ client = "ReconnectionMonitor"
    /\ MonWrite(IF listeners # <<>> THEN MonNetworkListener(MonCur, FALSE) ELSE MonCur,
                listeners, notifyListeners(listeners, {}), "false", monitored, "offline")

\* Date.now() advances between two callbacks
MonTick ==
    /\ client = "ReconnectionMonitor"
    /\ now < MaxNow
    /\ now' = now + 1
    /\ lastOp' = "tick"
    /\ prevAttempts' = reconnectAttempts
    /\ called' = {}
    /\ delay' = NoDelay
    /\ stats' = NoStats
    /\ logged' = <<>>
    /\ notified' = <<>>
    /\ UNCHANGED <<cfgVars, clientVars, trkVars, delayCfgVars, reconnectAttempts, reconnectTimer,
                   rmOrphanTimers, isReconnecting, connectionStartTime,
                   lastDisconnectionTime, maxAttempts, maxReports, listeners,
                   callbackArg, isOnline, reentry, connectionHistory, metrics,
                   startTime, monitored>>

(* ------------------ auto-tracker (src/src/auto-tracker.ts) ------------ *)
\* The module keeps one reference, websocketClient, to the WebSocketClient it
\* created last; the clients it has dropped are still objects whose sockets
\* and timers call their handlers.  clients holds every client the module
\* created, in creation order, websocketClient the index of the one the
\* reference points to (0 = null).  Session ids and urls are numbered from
\* 1; 0 is undefined (sessionId, websocketUrl) or null (persistedUserId).
Ids == 1..MaxIds

Urls == 1..MaxUrls

NoOptions == [websocketUrl |-> 0, sessionId |-> 0, set |-> FALSE]

\* the options objects a caller passes to enableAutoTracker
Options == [websocketUrl : {0} \cup Urls, sessionId : {0} \cup Ids, set : {TRUE}]

EventNames == {"UserLogin", "PageView"}

\* `const maxAttempts = 50` of track
PollMaxAttempts == 50

\* the polling loop of a call of track: the 200 ms timeout, then the 100 ms
\* interval; sent counts the calls of send that returned true
NoPoll == [phase |-> "none", eventName |-> "PageView", attempts |-> 0, sent |-> 0]

TrkCur ==
    [trackerEnabled |-> trackerEnabled, trackerOptions |-> trackerOptions,
     persistedUserId |-> persistedUserId, websocketClient |-> websocketClient,
     clients |-> clients, removeListeners |-> removeListeners, ok |-> TRUE]

\* `new WebSocketClient({url, sessionId, autoHandlePopup: true, ...})`
NewClient(url, id) ==
    [websocket |-> "null", orphans |-> NoOrphans, retryAttempts |-> 0,
     retryTimer |-> "null", orphanTimers |-> 0, isConnecting |-> FALSE,
     heartbeatTimer |-> FALSE, maxReports |-> 0, sessionId |-> id, urlSession |-> 0,
     autoHandlePopup |-> TRUE, fx |-> <<>>, threw |-> FALSE, created |-> 0,
     ok |-> TRUE, url |-> url]

\* a client between two callbacks: what its last operation called is dropped
Settled(c) == [c EXCEPT !.fx = <<>>, !.threw = FALSE, !.created = 0]

\* the creation branch of initializeWebSocketConnection: the new client, its
\* connect() and the cleanup closure pushed to removeListeners
TrkCreateClient(t, id) ==
    [t EXCEPT !.clients = Append(@, WsConnectOp(NewClient(t.trackerOptions.websocketUrl, id))),
              !.websocketClient = Len(t.clients) + 1,
              !.removeListeners = @ + 1,
              !.ok = t.ok /\ Len(t.clients) < MaxClients]

\* `if (websocketClient) { websocketClient.disconnect(); websocketClient = null; }`
TrkDropClient(t) ==
    IF t.websocketClient # 0
    THEN [t EXCEPT !.clients[t.websocketClient] = WsDisconnectOp(@),
                   !.websocketClient = 0]
    ELSE t

initializeWebSocketConnection(t, id) ==
    IF ~t.trackerOptions.set \/ t.trackerOptions.websocketUrl = 0
    THEN t
    ELSE IF t.websocketClient # 0
         THEN LET c == t.clients[t.websocketClient]
                  currentSessionId == c.sessionId
                  currentUrl == c.url
                  needsReconnect ==
                      \/ currentUrl # t.trackerOptions.websocketUrl
                      \/ currentSessionId # t.trackerOptions.sessionId
                      \/ ~WsIsConnected(c)
              IN  IF ~needsReconnect
                  THEN t
                  ELSE IF currentUrl # t.trackerOptions.websocketUrl
                       THEN TrkCreateClient(TrkDropClient(t), id)
                       ELSE IF currentSessionId # t.trackerOptions.sessionId
                               /\ WsIsConnected(c)
                            THEN [t EXCEPT !.clients[t.websocketClient] =
                                     WsUpdateSessionIdOp(@, t.trackerOptions.sessionId)]
                            ELSE IF ~WsIsConnected(c)
                                 THEN [t EXCEPT !.clients[t.websocketClient] =
                                          WsReconnectOp(@)]
                                 ELSE TrkCreateClient(t, id)
         ELSE TrkCreateClient(t, id)

\* the caller awaits the call: what follows `await initializePostHog(...)`,
\* which resolves to the distinct id of PostHog, runs before the caller's next
\* call, and the connection events that arrive in between read none of the
\* module's variables
enableAutoTracker(t, options, id) ==
    LET a == [t EXCEPT !.trackerOptions = options,
                       !.persistedUserId = id,
                       !.trackerEnabled = TRUE]
    IN  IF options.websocketUrl # 0 THEN initializeWebSocketConnection(a, id) ELSE a

\* every closure in removeListeners is the one initializeWebSocketConnection
\* pushed; the first that runs drops the client, the others find null
disableAutoTracker(t) ==
    LET a == [t EXCEPT !.trackerEnabled = FALSE, !.removeListeners = 0]
    IN  IF t.removeListeners > 0 THEN TrkDropClient(a) ELSE a

updateWebSocketSessionId(t, id) ==
    LET a == IF t.websocketClient # 0
             THEN [t EXCEPT !.clients[t.websocketClient] = WsUpdateSessionIdOp(@, id)]
             ELSE t
    IN  IF a.trackerOptions.set THEN [a EXCEPT !.trackerOptions.sessionId = id] ELSE a

\* id is what posthog.get_distinct_id() returns now
reconnectionWS(t, id) ==
    LET oldDistinctId == t.persistedUserId
        a == [t EXCEPT !.persistedUserId = id]
    IN  IF a.trackerOptions.set /\ a.trackerOptions.websocketUrl # 0 /\ oldDistinctId # id
        THEN initializeWebSocketConnection(TrkDropClient(a), id)
        ELSE a

\* identify(userId) and reset(): PostHog takes userId, or a fresh id, as its
\* distinct id, and reconnectionWS follows
identify(t, id) == IF ~t.trackerOptions.set THEN t ELSE reconnectionWS(t, id)

\* the callback of the 200 ms timeout of track
TrkPollStart(p) ==
    IF p.eventName = "UserLogin" THEN [p EXCEPT !.phase = "interval"]
                                 ELSE [p EXCEPT !.phase = "cleared"]

\* mutant: the interval is cleared only when send returned true
TrkPollCheck_ClearsWhenSent(t, p, throws) ==
    LET q == [p EXCEPT !.attempts = @ + 1]
    IN  IF t.websocketClient # 0 /\ WsIsConnected(t.clients[t.websocketClient])
        THEN LET c == WsSendOp(t.clients[t.websocketClient], throws)
                 sent == c.fx[Len(c.fx)] = "return true"
             IN  IF sent THEN [q EXCEPT !.sent = @ + 1, !.phase = "cleared"]
                         ELSE q
        ELSE IF q.attempts >= PollMaxAttempts
             THEN [q EXCEPT !.phase = "cleared"]
             ELSE q

\* the callback of the 100 ms interval of track
TrkPollCheck(t, p, throws) ==
    LET q == [p EXCEPT !.attempts = @ + 1]
    IN  IF t.websocketClient # 0 /\ WsIsConnected(t.clients[t.websocketClient])
        THEN LET c == WsSendOp(t.clients[t.websocketClient], throws)
                 sent == c.fx[Len(c.fx)] = "return true"
             IN  [q EXCEPT !.sent = IF sent THEN @ + 1 ELSE @, !.phase = "cleared"]
        ELSE IF q.attempts >= PollMaxAttempts
             THEN [q EXCEPT !.phase = "cleared"]
             ELSE q

\* the exported functions that create, replace or drop the client
ConnectionApi == {"enableAutoTracker", "disableAutoTracker", "updateWebSocketSessionId",
                  "identify", "reset"}

RECURSIVE Sum(_, _)
Sum(f, n) == IF n = 0 THEN 0 ELSE f[n] + Sum(f, n - 1)

\* connections of client c that are not closed, and its pending retry timers
LiveSockets(c) ==
    OrphanCount(c.orphans) + (IF c.websocket \in LiveStates THEN 1 ELSE 0)

TrkPendingTimers(c) == PendingTimers(c.retryTimer, c.orphanTimers)

\* write the record back to the variables; id is the distinct id of PostHog
\* after the operation, p the polling loop
TrkWrite(t, id, p, op) ==
    /\ t.ok
    /\ \A i \in 1..Len(t.clients) :
        t.clients[i].ok /\ t.clients[i].retryAttempts <= MaxTrkRetries
    /\ Sum([i \in 1..Len(t.clients) |-> LiveSockets(t.clients[i])], Len(t.clients))
           <= MaxSockets
    /\ Sum([i \in 1..Len(t.clients) |-> TrkPendingTimers(t.clients[i])], Len(t.clients))
           <= MaxTimers
    /\ trackerEnabled' = t.trackerEnabled
    /\ trackerOptions' = t.trackerOptions
    /\ persistedUserId' = t.persistedUserId
    /\ websocketClient' = t.websocketClient
    /\ clients' = [i \in 1..Len(t.clients) |-> Settled(t.clients[i])]
    /\ removeListeners' = t.removeListeners
    /\ distinctId' = id
    /\ poll' = p
    /\ calls' = IF op \in ConnectionApi THEN calls + 1 ELSE calls
    /\ calls' <= MaxCalls
    /\ lastOp' = op
    /\ UNCHANGED <<cfgVars, clientVars, rmVars, nsdVars, monVars, prevAttempts, maxReports>>

TrkSet(t, op) == TrkWrite(t, distinctId, poll, op)

\* connections of client c in one of the states
TrkSources(c, states) ==
    {src \in {"current", "orphan"} \X states :
        IF src[1] = "current" THEN c.websocket = src[2] ELSE c.orphans[src[2]] > 0}

(* caller invocations *)
TrkEnableAutoTracker ==
    /\ client = "AutoTracker"
    /\ \E options \in Options :
        TrkSet(enableAutoTracker(TrkCur, options, distinctId), "enableAutoTracker")

TrkDisableAutoTracker ==
    /\ client = "AutoTracker"
    /\ TrkSet(disableAutoTracker(TrkCur), "disableAutoTracker")

TrkUpdateWebSocketSessionId ==
    /\ client = "AutoTracker"
    /\ \E id \in Ids :
        TrkSet(updateWebSocketSessionId(TrkCur, id), "updateWebSocketSessionId")

TrkIdentify ==
    /\ client = "AutoTracker"
    /\ \E userId \in Ids :
        TrkWrite(identify(TrkCur, userId),
                 IF trackerOptions.set THEN userId ELSE distinctId, poll, "identify")

\* posthog.reset() draws a distinct id that was not in use
TrkReset ==
    /\ client = "AutoTracker"
    /\ \E fresh \in Ids \ {distinctId} :
        TrkWrite(identify(TrkCur, fresh),
                 IF trackerOptions.set THEN fresh ELSE distinctId, poll, "reset")

TrkTrack ==
    /\ client = "AutoTracker"
    /\ poll.phase \in {"none", "cleared"}
    /\ \E eventName \in EventNames :
        TrkWrite(TrkCur, distinctId, [NoPoll EXCEPT !.phase = "timeout",
                                                    !.eventName = eventName], "track")

(* callbacks of the host runtime *)
TrkSocketOpened ==
    /\ client = "AutoTracker"
    /\ \E i \in 1..Len(clients) : \E src \in TrkSources(clients[i], {"CONNECTING"}) :
        TrkSet([TrkCur EXCEPT !.clients[i] = WsOnOpen(WsMove(@, src, "OPEN"))], "onopen")

TrkSocketFailed ==
    /\ client = "AutoTracker"
    /\ \E i \in 1..Len(clients) :
        \E src \in TrkSources(clients[i], {"CONNECTING", "OPEN", "CLOSING_FAIL"}) :
            TrkSet([TrkCur EXCEPT !.clients[i] =
                       WsOnClose(WsOnError(WsMove(@, src, "CLOSED")), FALSE)],
                   "onerror+onclose")

TrkSocketClosedClean ==
    /\ client = "AutoTracker"
    /\ \E i \in 1..Len(clients) : \E src \in TrkSources(clients[i], {"OPEN", "CLOSING"}) :
        TrkSet([TrkCur EXCEPT !.clients[i] = WsOnClose(WsMove(@, src, "CLOSED"), TRUE)],
               "onclose")

TrkRetryTimerFired ==
    /\ client = "AutoTracker"
    /\ \E i \in 1..Len(clients), held \in BOOLEAN :
        /\ IF held THEN clients[i].retryTimer = "pending" ELSE clients[i].orphanTimers > 0
        /\ TrkSet([TrkCur EXCEPT !.clients[i] =
                      WsConnectOp(IF held
                                  THEN [clients[i] EXCEPT !.retryTimer = "stale"]
                                  ELSE [clients[i] EXCEPT !.orphanTimers = @ - 1])],
                  "retryTimer")

TrkPollTimeout ==
    /\ client = "AutoTracker"
    /\ poll.phase = "timeout"
    /\ TrkWrite(TrkCur, distinctId, TrkPollStart(poll), "pollTimeout")

TrkPollInterval ==
    /\ client = "AutoTracker"
    /\ poll.phase = "interval"
    /\ \E throws \in BOOLEAN :
        TrkWrite(TrkCur, distinctId, TrkPollCheck(TrkCur, poll, throws), "pollCheck")

(* --------------------------- specification ---------------------------- *)
\* the fields of each object after its constructor
InitOther ==
    /\ sessionId = 0
    /\ urlSession = 0
    /\ autoHandlePopup = TRUE
    /\ effects = <<>>
    /\ evtState = "none"
    /\ lastMsg = NoMsg
    /\ websocket = "null"
    /\ eventSource = "null"
    /\ orphans = NoOrphans
    /\ retryAttempts = 0
    /\ retryTimer = "null"
    /\ orphanTimers = 0
    /\ isConnecting = FALSE
    /\ heartbeatTimer = FALSE
    /\ lastOp = "new"
    /\ prevAttempts = 0
    /\ maxReports = 0
    /\ autoConnects = 0
    /\ callerIdle = FALSE
    /\ reconnectAttempts = 0
    /\ reconnectTimer = "null"
    /\ rmOrphanTimers = 0
    /\ isReconnecting = FALSE
    /\ connectionStartTime = NoTime
    /\ lastDisconnectionTime = NoTime
    /\ now = 1
    /\ called = {}
    /\ delay = NoDelay
    /\ stats = NoStats
    /\ listeners = IF client = "ReconnectionMonitor" THEN <<MonitorListener>> ELSE <<>>
    /\ callbackArg = 0
    /\ notified = <<>>
    /\ isOnline = "none"
    /\ reentry = NoReentry
    /\ connectionHistory = <<>>
    /\ metrics = InitialMetrics
    /\ startTime = 1
    /\ monitored = Unmonitored
    /\ logged = <<>>

\* the variables of the auto-tracker module when it is loaded
InitTrkFields ==
    /\ trackerEnabled = FALSE
    /\ trackerOptions = NoOptions
    /\ persistedUserId = 0
    /\ websocketClient = 0
    /\ clients = <<>>
    /\ removeListeners = 0
    /\ distinctId = 1
    /\ poll = NoPoll
    /\ calls = 0

InitFields == InitOther /\ InitTrkFields

\* the delays of a ReconnectionManager constructed with {jitterRange: 0}
DefaultDelays ==
    /\ baseDelay = DefaultBaseDelay
    /\ maxDelay = DefaultMaxDelay
    /\ backoffMultiplier = DefaultBackoffMultiplier
    /\ jitterRange = 0

Init ==
    /\ client \in {"WebSocketClient", "SSEClient", "ReconnectionManager"}
    /\ IF client = "ReconnectionManager"
       THEN /\ maxRetryAttempts = DefaultMaxRetryAttempts
            /\ urlOk = TRUE
            /\ maxAttempts \in 0..MaxAttemptsCfg
       ELSE /\ maxRetryAttempts \in (0..MaxConfigured) \cup {DefaultMaxRetryAttempts}
            /\ urlOk \in BOOLEAN
            /\ maxAttempts = DefaultMaxAttempts
    /\ DefaultDelays
    /\ InitFields

Next == WsNext \/ SseNext \/ RmNext

Spec == Init /\ [][Next]_vars

\* The transport clients with their inbound messages: a client constructed
\* with a valid url and maxRetryAttempts 1, on which the lifecycle callbacks,
\* the message events, send and setAutoHandlePopup run (the session id,
\* which none of them reads, stays as constructed).
InitMsg ==
    /\ Init
    /\ client \in {"WebSocketClient", "SSEClient"}
    /\ maxRetryAttempts = 1
    /\ urlOk

NextMsg ==
    \/ WsLifecycle
    \/ WsMessage
    \/ WsSend
    \/ WsSetAutoHandlePopup
    \/ SseLifecycle
    \/ SsePopupEvent
    \/ SseMessage
    \/ SseSetAutoHandlePopup

SpecMsg == InitMsg /\ [][NextMsg]_vars

\* The WebSocketClient of SpecMsg with its heartbeat interval.
InitHeartbeat ==
    /\ InitMsg
    /\ client = "WebSocketClient"

NextHeartbeat ==
    \/ WsLifecycle
    \/ WsHeartbeatFired

SpecHeartbeat == InitHeartbeat /\ [][NextHeartbeat]_vars

\* The objects that call callbacks of their caller, with callbacks that may
\* throw: the transport clients of SpecMsg in their connection lifecycle,
\* and a NetworkStateDetector.
InitThrowing ==
    /\ client \in {"WebSocketClient", "SSEClient", "NetworkStateDetector"}
    /\ maxRetryAttempts = 1
    /\ urlOk = TRUE
    /\ maxAttempts = DefaultMaxAttempts
    /\ DefaultDelays
    /\ InitFields

NextThrowing ==
    \/ WsConnect
    \/ WsReconnect
    \/ WsResetRetryAttempts
    \/ WsDisconnect
    \/ WsRetryTimerFired
    \/ WsOpenedThrowing
    \/ WsFailedThrowing
    \/ WsClosedCleanThrowing
    \/ SseConnect
    \/ SseReconnect
    \/ SseResetRetryAttempts
    \/ SseDisconnect
    \/ SseRetryTimerFired
    \/ SseOpenedThrowing
    \/ SseTransientErrorThrowing
    \/ SseFailedThrowing
    \/ NsdNext

SpecThrowing == InitThrowing /\ [][NextThrowing]_vars

\* The ReconnectionManager of Spec on its own.
InitRm ==
    /\ Init
    /\ client = "ReconnectionManager"

SpecRm == InitRm /\ [][RmNext]_vars

\* A NetworkStateDetector whose listeners may call it from inside their
\* callback, or throw.
InitNsd ==
    /\ InitThrowing
    /\ client = "NetworkStateDetector"

NextNsd ==
    \/ NsdAddListener
    \/ NsdRemoveListener
    \/ NsdDestroy
    \/ NsdOnlineReentrant
    \/ NsdOfflineReentrant

SpecNsd == InitNsd /\ [][NextNsd]_vars

\* A ReconnectionMonitor: its manager has the constructor defaults, its
\* detector the listener of setupNetworkMonitoring.
InitMonitor ==
    /\ client = "ReconnectionMonitor"
    /\ maxRetryAttempts = DefaultMaxRetryAttempts
    /\ urlOk = TRUE
    /\ maxAttempts = DefaultMaxAttempts
    /\ baseDelay = DefaultBaseDelay
    /\ maxDelay = DefaultMaxDelay
    /\ backoffMultiplier = DefaultBackoffMultiplier
    /\ jitterRange = DefaultJitterRange
    /\ InitFields

NextMonitor ==
    \/ MonRecordConnectionEvent
    \/ MonForceReconnection
    \/ MonTimerFired
    \/ MonResetMetrics

SpecMonitor == InitMonitor /\ [][NextMonitor]_vars

\* The bookkeeping of the ReconnectionMonitor as time passes.
NextMetrics ==
    \/ MonRecordConnectionEvent
    \/ MonGetMetrics
    \/ MonResetMetrics
    \/ MonTick

SpecMetrics == InitMonitor /\ [][NextMetrics]_vars

\* The ReconnectionMonitor with the clients it is given and the
\* connectivity events of the window.
NextMonitorNetwork ==
    \/ MonMonitorWebSocket
    \/ MonMonitorSSE
    \/ MonClientChanged
    \/ MonOnline
    \/ MonOffline
    \/ MonForceReconnection
    \/ MonTimerFired
    \/ MonDestroy

SpecMonitorNetwork == InitMonitor /\ [][NextMonitorNetwork]_vars

\* The delays of a ReconnectionManager: one constructed with jitterRange 0
\* and the default delays, or with small delays (baseDelay > 0, maxDelay >=
\* baseDelay), a multiplier from 0 (which stands for the multipliers below
\* 1) upwards, and a jitter range that is 0 or wide enough for every value of
\* Math.random() to give a whole jitter.
JitterRanges == {0, 2 * RandomSteps}

InitDelay ==
    /\ client = "ReconnectionManager"
    /\ maxRetryAttempts = DefaultMaxRetryAttempts
    /\ urlOk = TRUE
    /\ maxAttempts \in 1..MaxAttemptsCfg
    /\ \/ DefaultDelays
       \/ /\ baseDelay \in 1..MaxDelayCfg
          /\ maxDelay \in baseDelay..MaxDelayCfg
          /\ backoffMultiplier \in 0..MaxMultiplier
          /\ jitterRange \in JitterRanges
    /\ InitFields

NextDelay ==
    \/ RmStartReconnection
    \/ RmTimerFired
    \/ RmOnConnectionSuccess
    \/ RmForceReconnection

SpecDelay == InitDelay /\ [][NextDelay]_vars


\* the auto-tracker with a valid PostHog configuration, whose connections succeed
\* or fail as the network decides
InitTracker ==
    /\ client = "AutoTracker"
    /\ maxRetryAttempts = DefaultMaxRetryAttempts
    /\ urlOk = TRUE
    /\ maxAttempts = DefaultMaxAttempts
    /\ DefaultDelays
    /\ InitFields

NextTracker ==
    \/ TrkEnableAutoTracker
    \/ TrkDisableAutoTracker
    \/ TrkUpdateWebSocketSessionId
    \/ TrkIdentify
    \/ TrkReset
    \/ TrkSocketOpened
    \/ TrkSocketFailed
    \/ TrkSocketClosedClean
    \/ TrkRetryTimerFired

SpecTracker == InitTracker /\ [][NextTracker]_vars

\* the calls of track after enableAutoTracker(options): the connection of the
\* client opens, fails or is closed by the server, and the caller may disable
\* the tracker, while the loop polls
InitTrack ==
    /\ client = "AutoTracker"
    /\ maxRetryAttempts = DefaultMaxRetryAttempts
    /\ urlOk = TRUE
    /\ maxAttempts = DefaultMaxAttempts
    /\ DefaultDelays
    /\ \E options \in Options :
        \E t \in {enableAutoTracker([trackerEnabled |-> FALSE, trackerOptions |-> NoOptions,
                                     persistedUserId |-> 0, websocketClient |-> 0,
                                     clients |-> <<>>, removeListeners |-> 0,
                                     ok |-> TRUE], options, 1)} :
            /\ trackerEnabled = t.trackerEnabled
            /\ trackerOptions = t.trackerOptions
            /\ persistedUserId = t.persistedUserId
            /\ websocketClient = t.websocketClient
            /\ clients = [i \in 1..Len(t.clients) |-> Settled(t.clients[i])]
            /\ removeListeners = t.removeListeners
    /\ distinctId = 1
    /\ poll = NoPoll
    /\ calls = 0
    /\ InitOther

NextTrack ==
    \/ TrkDisableAutoTracker
    \/ TrkSocketOpened
    \/ TrkSocketFailed
    \/ TrkSocketClosedClean
    \/ TrkTrack
    \/ TrkPollTimeout
    \/ TrkPollInterval

SpecTrack == InitTrack /\ [][NextTrack]_vars

(* ------------------------------ claims -------------------------------- *)
\* a transport client whose config.url the connection constructor accepts
IsTransportClient == client \in {"WebSocketClient", "SSEClient"} /\ urlOk

\* readyState of the connection the transport client refers to
Current == IF client = "WebSocketClient" THEN websocket ELSE eventSource

\* connections created by the client that are connecting or open
LiveConnections ==
    (IF Current \in {"CONNECTING", "OPEN"} THEN 1 ELSE 0)
    + orphans["CONNECTING"] + orphans["OPEN"]

\* C1: a transport client never has more than one retry timer pending.
C1_AtMostOneRetryTimer ==
    IsTransportClient => PendingTimers(retryTimer, orphanTimers) <= 1

\* C2: while disconnect() is the caller's last lifecycle call, no retry timer
\* is pending and the client has made no connection attempt.
C2_NoRetryAfterDisconnect ==
    (IsTransportClient /\ callerIdle) =>
        /\ PendingTimers(retryTimer, orphanTimers) = 0
        /\ Current = "null"

\* C3: disconnect() cancels every retry timer armed before it, so none is
\* left to fire connect() in the next cycle.
C3_DisconnectCancelsAllTimers ==
    (IsTransportClient /\ lastOp = "disconnect") =>
        PendingTimers(retryTimer, orphanTimers) = 0

\* C4: at most one connection created by the client is connecting or open.
C4_AtMostOneLiveConnection ==
    IsTransportClient => LiveConnections <= 1

\* C5: for every configured maximum N >= 0 the attempt counter never exceeds
\* N and retry timers open at most N connections in a row.
C5_AtMostNRetries ==
    IsTransportClient =>
        /\ retryAttempts <= maxRetryAttempts
        /\ autoConnects <= maxRetryAttempts

\* C6: once exhaustion has been reported, no retry timer is pending (so no
\* connection attempt follows unless the caller asks for one).
C6_ExhaustedStaysIdle ==
    (IsTransportClient /\ maxReports > 0) =>
        PendingTimers(retryTimer, orphanTimers) = 0

\* C7: within one exhaustion (until the counter is reset) the error 'Max
\* retry attempts reached' is delivered to onError at most once.
C7_ExhaustionReportedOnce ==
    IsTransportClient => maxReports <= 1

C9_StartWhileReconnectingIsNoOp ==
    [][(lastOp' = "startReconnection" /\ isReconnecting) =>
        /\ reconnectAttempts' = reconnectAttempts
        /\ isReconnecting'
        /\ reconnectTimer' = reconnectTimer
        /\ rmOrphanTimers' = rmOrphanTimers
        /\ "onReconnectionAttempt" \notin called']_vars

C9_Witness ==
    /\ lastOp = "startReconnection"
    /\ isReconnecting
    /\ reconnectTimer = "pending"
    /\ reconnectAttempts < maxAttempts
    /\ called = {}

\* C10: a successful connection resets the attempt counter to 0 whatever it
\* was: onConnectionSuccess also clears isReconnecting, leaves no timer
\* pending, records the connection time and clears the disconnection time;
\* the open handler of both transport clients sets retryAttempts to 0.
C10_SuccessResetsAttempts ==
    /\ lastOp = "onConnectionSuccess" =>
        /\ reconnectAttempts = 0
        /\ ~isReconnecting
        /\ PendingTimers(reconnectTimer, rmOrphanTimers) = 0
        /\ connectionStartTime = now
        /\ lastDisconnectionTime = NoTime
    /\ lastOp = "onopen" => retryAttempts = 0

C10_Witness ==
    /\ lastOp = "onConnectionSuccess"
    /\ prevAttempts > 1
    /\ reconnectAttempts = 0
    /\ connectionStartTime = MaxNow

\* C11: updateSessionId(id) on a WebSocketClient whose socket is OPEN calls
\* close() once on the old connection and then creates one connection whose
\* URL carries id; when the socket is not OPEN only config.sessionId changes
\* and no connection is closed or created.
C11_UpdateSessionIdCyclesOnce ==
    [][(client = "WebSocketClient" /\ lastOp' = "updateSessionId") =>
        IF websocket = "OPEN"
        THEN /\ effects' = <<"close", "new">>
             /\ websocket' = "CONNECTING"
             /\ urlSession' = sessionId'
             /\ orphans' = [orphans EXCEPT !["CLOSING"] = @ + 1]
        ELSE /\ effects' = <<>>
             /\ websocket' = websocket
             /\ urlSession' = urlSession
             /\ orphans' = orphans]_vars

C11_Witness ==
    /\ client = "WebSocketClient"
    /\ lastOp = "updateSessionId"
    /\ effects = <<"close", "new">>
    /\ websocket = "CONNECTING"
    /\ sessionId = MaxSession
    /\ urlSession = MaxSession
    /\ orphans["CLOSING"] = 1

\* C12: whenever a connection of a WebSocketClient closes or errors without
\* close() having been called on it by disconnect(), and the attempt counter
\* is below the maximum, the handler leaves a retry timer pending (whose
\* firing is the next connect attempt).
C12_CloseSchedulesRetry ==
    (/\ client = "WebSocketClient"
     /\ urlOk
     /\ lastOp \in {"onclose", "onerror+onclose"}
     /\ evtState \in {"CONNECTING", "OPEN"}
     /\ prevAttempts < maxRetryAttempts) =>
        PendingTimers(retryTimer, orphanTimers) > 0

Malformed(msg) == Head(msg.data) = "bad"

\* C14: an inbound message whose data is not JSON (a WebSocket frame, an SSE
\* event of the default channel or of the channel 'popup') changes neither
\* the attempt counter, the retry timers nor isConnecting, closes no
\* connection, and invokes neither onClose, onError, the renderer nor any
\* other callback; no exception leaves the handler.
C14_MalformedMessageIsDropped ==
    [][(lastOp' \in {"onmessage", "popup"} /\ Malformed(lastMsg')) =>
        /\ effects' = <<>>
        /\ UNCHANGED <<retryAttempts, retryTimer, orphanTimers, isConnecting,
                       maxReports, websocket, eventSource, orphans, heartbeatTimer>>]_vars

C14_Witness ==
    /\ client = "SSEClient"
    /\ lastOp = "onmessage"
    /\ Malformed(lastMsg)
    /\ retryTimer = "pending"
    /\ retryAttempts = 1
    /\ effects = <<>>

\* the envelope a message carries: wrapped in the field message of a frame,
\* the event's own object on a stream
EnvelopeOf(msg) == IF msg.channel = "frame" THEN msg.inner ELSE msg.obj

\* C15: in both clients the renderer is called only for an envelope whose
\* type is "popup"; an envelope of any other type is dropped.
C15_OnlyPopupTypeRendered ==
    (lastOp \in {"onmessage", "popup"} /\ Count(effects, "showPopup(strategy.content)") > 0) =>
        EnvelopeOf(lastMsg).type = "popup"

\* the event carries its object in the encoding the handler of its channel
\* decodes: once on the channel 'popup', twice on the default channel
Decodable(msg) ==
    \/ msg.channel = "popup" /\ msg.data = Stringified(0, "obj")
    \/ msg.channel = "message" /\ msg.data = Stringified(1, "obj")

Wrapped(msg) == msg.data = <<"obj">> /\ msg.obj.type = "success"

\* C17 as stated: a wrapped frame is not passed to onMessage; every other
\* frame that parses is passed to onMessage once and to nothing else.
C17_RoutingExclusive ==
    (client = "WebSocketClient" /\ lastOp = "onmessage" /\ ~Malformed(lastMsg)) =>
        IF Wrapped(lastMsg)
        THEN Count(effects, "onMessage") = 0
        ELSE effects = <<"onMessage">>

\* C17 amended: every frame that parses, wrapped or not, is passed to
\* onMessage exactly once, after its handling; a wrapped frame is first
\* decoded and its envelope given to the renderer, at most once and only
\* when autoHandlePopup is enabled; no other frame reaches the renderer.
C17_EveryParsedFrameReachesOnMessage ==
    (client = "WebSocketClient" /\ lastOp = "onmessage" /\ ~Malformed(lastMsg)) =>
        /\ Count(effects, "onMessage") = 1
        /\ effects[Len(effects)] = "onMessage"
        /\ Count(effects, "throw") = 0
        /\ Count(effects, "showPopup(strategy.content)")
             = IF /\ Wrapped(lastMsg)
                  /\ autoHandlePopup
                  /\ lastMsg.message = <<"obj">>
                  /\ lastMsg.inner.strategy
               THEN 1 ELSE 0

C17_Witness ==
    /\ client = "WebSocketClient"
    /\ lastOp = "onmessage"
    /\ Wrapped(lastMsg)
    /\ lastMsg.message = <<"obj">>
    /\ lastMsg.inner = [type |-> "popup", strategy |-> TRUE, payload |-> TRUE]
    /\ autoHandlePopup
    /\ effects = <<"showPopup(strategy.content)", "onMessage">>

\* C18: the default-message handler of the SSEClient accepts a payload
\* encoded once or twice: an envelope of type "popup" has the effects the
\* handler of the channel 'popup' has on it, an envelope of another type
\* never reaches the renderer.
C18_DefaultChannelAcceptsBothEncodings ==
    (/\ client = "SSEClient"
     /\ lastOp = "onmessage"
     /\ lastMsg.data \in {Stringified(0, "obj"), Stringified(1, "obj")}) =>
        IF lastMsg.obj.type = "popup"
        THEN effects = SsePopupListener(SseCur,
                           [lastMsg EXCEPT !.data = Stringified(0, "obj")]).fx
        ELSE Count(effects, "showPopup(strategy.content)") = 0

\* C19: WebSocketClient.send never throws; it returns false and writes
\* nothing whenever the socket is not OPEN, and returns true exactly when the
\* data was written to an OPEN socket; it changes nothing in the client.
C19_SendReportsWhatItWrote ==
    [][lastOp' = "send" =>
        /\ effects' \in {<<"send", "return true">>, <<"return false">>}
        /\ websocket # "OPEN" => effects' = <<"return false">>
        /\ UNCHANGED <<websocket, orphans, retryAttempts, retryTimer, orphanTimers,
                       isConnecting, heartbeatTimer, maxReports>>]_vars

C19_Witness ==
    /\ lastOp = "send"
    /\ websocket = "OPEN"
    /\ orphans["CLOSING"] = 1
    /\ effects = <<"send", "return true">>

\* C20: disconnect() is idempotent and leaves a transport client reusable.
\* After any disconnect() the client has no connection, isConnecting false,
\* attempt counter 0, no retry timer and no heartbeat timer; a disconnect()
\* that directly follows another one closes nothing and changes nothing;
\* and connect() called next creates one new connection.
C20_DisconnectIdempotentAndReusable ==
    [][IsTransportClient =>
        /\ lastOp' = "disconnect" =>
              /\ Current' = "null"
              /\ ~isConnecting'
              /\ retryAttempts' = 0
              /\ PendingTimers(retryTimer', orphanTimers') = 0
              /\ ~heartbeatTimer'
        /\ (lastOp = "disconnect" /\ lastOp' = "disconnect") =>
              /\ effects' = <<>>
              /\ UNCHANGED <<websocket, eventSource, orphans, retryAttempts, retryTimer,
                             orphanTimers, isConnecting, heartbeatTimer, maxReports,
                             sessionId, urlSession>>
        /\ (lastOp = "disconnect" /\ lastOp' = "connect") =>
              /\ Current' = "CONNECTING"
              /\ isConnecting'
              /\ effects' = <<"new">>]_vars

Retrying ==
    /\ PendingTimers(retryTimer, orphanTimers) > 0
    /\ Current \notin {"CONNECTING", "OPEN"}

\* the attempt counter has reached the maximum, no retry timer is pending
\* and no connection is connecting or open
Exhausted ==
    /\ retryAttempts >= OrDefault(maxRetryAttempts, DefaultMaxRetryAttempts)
    /\ PendingTimers(retryTimer, orphanTimers) = 0
    /\ Current \notin {"CONNECTING", "OPEN"}

\* C22: reconnect() called while the client is retrying or exhausted leaves
\* a connection attempt in progress (a connection just created, CONNECTING),
\* no retry timer pending and the attempt counter at 0.
C22_ReconnectStartsAfresh ==
    [][(IsTransportClient /\ lastOp' = "reconnect" /\ (Retrying \/ Exhausted)) =>
        /\ Current' = "CONNECTING"
        /\ isConnecting'
        /\ effects' = <<"new">>
        /\ retryAttempts' = 0
        /\ PendingTimers(retryTimer', orphanTimers') = 0]_vars

\* C24: connect() on a transport client whose config.url the connection
\* constructor rejects throws to its caller, arms no retry timer and leaves
\* the attempt counter as it was.
C24_ConfigErrorFailsFast ==
    [][(client \in {"WebSocketClient", "SSEClient"} /\ ~urlOk /\ lastOp' = "connect") =>
        /\ Count(effects', "throw") = 1
        /\ retryAttempts' = retryAttempts
        /\ retryTimer' = retryTimer
        /\ orphanTimers' = orphanTimers]_vars

\* the fields of the WebSocketClient after the step are those of the record c
WsSameFields(c) ==
    /\ websocket' = c.websocket
    /\ orphans' = c.orphans
    /\ retryAttempts' = c.retryAttempts
    /\ retryTimer' = c.retryTimer
    /\ orphanTimers' = c.orphanTimers
    /\ isConnecting' = c.isConnecting
    /\ heartbeatTimer' = c.heartbeatTimer

\* the fields of the SSEClient after the step are those of the record c
SseSameFields(c) ==
    /\ eventSource' = c.eventSource
    /\ orphans' = c.orphans
    /\ retryAttempts' = c.retryAttempts
    /\ retryTimer' = c.retryTimer
    /\ orphanTimers' = c.orphanTimers
    /\ isConnecting' = c.isConnecting

\* C23: a callback that throws does not change what an event does to the
\* client: after an open, error or close event the fields of a transport
\* client are those the handlers give them when no callback throws (so an
\* unclean close still counts an attempt and arms its retry timer), and a
\* notification of the NetworkStateDetector calls every registered listener
\* even when one of them throws.
C23_ThrowingCallbackIsHarmless ==
    [][/\ (client = "WebSocketClient" /\ lastOp' = "onopen") =>
            \E src \in WsSources({"CONNECTING"}) :
                WsSameFields(WsOnOpen(WsMove(WsCur, src, "OPEN")))
       /\ (client = "WebSocketClient" /\ lastOp' = "onerror+onclose") =>
            \E src \in WsSources({"CONNECTING", "OPEN", "CLOSING_FAIL"}) :
                WsSameFields(WsOnClose(WsOnError(WsMove(WsCur, src, "CLOSED")), FALSE))
       /\ (client = "WebSocketClient" /\ lastOp' = "onclose") =>
            \E src \in WsSources({"OPEN", "CLOSING"}) :
                WsSameFields(WsOnClose(WsMove(WsCur, src, "CLOSED"), TRUE))
       /\ (client = "SSEClient" /\ lastOp' = "onopen") =>
            \E src \in SseSources({"CONNECTING"}) :
                SseSameFields(SseOnOpen(SseMove(SseCur, src, "OPEN")))
       /\ (client = "SSEClient" /\ lastOp' = "onerror") =>
            \E src \in SseSources({"CONNECTING", "OPEN"}), st \in {"CONNECTING", "CLOSED"} :
                SseSameFields(SseOnError(SseMove(SseCur, src, st)))
       /\ (client = "NetworkStateDetector" /\ lastOp' \in {"online", "offline"}) =>
            SelectSeq(notified', LAMBDA x : x # Thrown) = listeners]_vars

\* C25: with jitterRange = 0 the delay a ReconnectionManager schedules for
\* attempt n, 1 <= n <= maxAttempts, is min(baseDelay * backoffMultiplier^(n-1),
\* maxDelay); with {baseDelay: 1000, maxDelay: 30000, backoffMultiplier: 2,
\* maxAttempts: 3, jitterRange: 0} the first, second and third scheduling
\* startReconnection get the delays 1000, 2000 and 4000, and a
\* startReconnection after the third calls onMaxAttemptsReached and
\* schedules nothing.
C25_DelaysWithoutJitter ==
    [][/\ (lastOp' \in {"startReconnection", "forceReconnection"}
           /\ jitterRange = 0
           /\ "onReconnectionAttempt" \in called') =>
            /\ reconnectAttempts' \in 1..maxAttempts
            /\ delay' = Min(baseDelay * Pow(backoffMultiplier, reconnectAttempts' - 1),
                            maxDelay)
       /\ (/\ lastOp' = "startReconnection"
           /\ baseDelay = 1000 /\ maxDelay = 30000 /\ backoffMultiplier = 2
           /\ maxAttempts = 3 /\ jitterRange = 0
           /\ ~isReconnecting \/ reconnectAttempts = 3) =>
            CASE reconnectAttempts = 0 -> delay' = 1000 /\ reconnectAttempts' = 1
              [] reconnectAttempts = 1 -> delay' = 2000 /\ reconnectAttempts' = 2
              [] reconnectAttempts = 2 -> delay' = 4000 /\ reconnectAttempts' = 3
              [] OTHER -> /\ called' = {"onMaxAttemptsReached"}
                          /\ delay' = NoDelay
                          /\ reconnectAttempts' = 3
                          /\ reconnectTimer' = reconnectTimer
                          /\ rmOrphanTimers' = rmOrphanTimers]_vars

C25_Witness ==
    /\ lastOp = "startReconnection"
    /\ baseDelay = 1000 /\ maxDelay = 30000 /\ backoffMultiplier = 2
    /\ maxAttempts = 3 /\ jitterRange = 0
    /\ reconnectAttempts = 3
    /\ reconnectTimer = "pending"
    /\ delay = 4000

\* the delay scheduled lies in [0, maxDelay + jitterRange/2]
DelayInRange == delay # NoDelay => (0 <= delay /\ delay <= maxDelay + jitterRange \div 2)

\* over the attempts counted so far the jitter-free delay never decreased,
\* and once it was maxDelay it stayed maxDelay
CappedDelayMonotone ==
    \A n \in 1..(reconnectAttempts - 1) :
        /\ cappedDelay(n) <= cappedDelay(n + 1)
        /\ cappedDelay(n) = maxDelay => cappedDelay(n + 1) = maxDelay

C27_ReconnectingIffTimerPending ==
    client = "ReconnectionManager" =>
        /\ isReconnecting <=> PendingTimers(reconnectTimer, rmOrphanTimers) > 0
        /\ PendingTimers(reconnectTimer, rmOrphanTimers) <= 1
        /\ rmOrphanTimers = 0

C27_Witness ==
    /\ lastOp = "startReconnection"
    /\ prevAttempts = 1
    /\ reconnectAttempts = 2
    /\ isReconnecting
    /\ reconnectTimer = "pending"
    /\ rmOrphanTimers = 0

\* C28: forceReconnection on a ReconnectionManager with maxAttempts >= 1,
\* whatever its state (exhausted, timer pending), leaves the attempt counter
\* at 1, isReconnecting true and exactly one timer pending, the one it armed
\* for its callback; a timer pending before was cancelled and never fires.
C28_ForceReconnectionRestarts ==
    [][(lastOp' = "forceReconnection" /\ maxAttempts >= 1) =>
        /\ reconnectAttempts' = 1
        /\ isReconnecting'
        /\ reconnectTimer' = "pending"
        /\ rmOrphanTimers' = 0
        /\ called' = {"onReconnectionAttempt"}
        /\ delay' # NoDelay]_vars

C28_Witness ==
    /\ lastOp = "forceReconnection"
    /\ maxAttempts = 2
    /\ prevAttempts = 2
    /\ reconnectAttempts = 1
    /\ isReconnecting
    /\ reconnectTimer = "pending"

\* C29: stopReconnection clears the pending timer (which then never fires)
\* and sets isReconnecting to false; it leaves the attempt counter, the
\* recorded connection and disconnection times and the config unchanged and
\* invokes no callback; a stopReconnection that directly follows another
\* changes nothing.
C29_StopOnlyCancels ==
    [][lastOp' = "stopReconnection" =>
        /\ reconnectTimer' = "null"
        /\ PendingTimers(reconnectTimer', rmOrphanTimers') = 0
        /\ ~isReconnecting'
        /\ called' = {}
        /\ UNCHANGED <<reconnectAttempts, connectionStartTime, lastDisconnectionTime,
                       maxAttempts>>
        /\ lastOp = "stopReconnection" =>
              UNCHANGED <<reconnectTimer, rmOrphanTimers, isReconnecting>>]_vars

C29_Witness ==
    /\ lastOp = "stopReconnection"
    /\ prevAttempts = 2
    /\ reconnectAttempts = 2
    /\ ~isReconnecting
    /\ reconnectTimer = "null"
    /\ connectionStartTime # NoTime
    /\ lastDisconnectionTime # NoTime

\* C30: getReconnectionStats returns remainingAttempts = max(0, maxAttempts
\* - reconnectAttempts), never negative and 0 when updateConfig has lowered
\* maxAttempts below the counter, and isMaxAttemptsReached = (reconnectAttempts
\* >= maxAttempts); no operation that leaves maxAttempts as it is takes the
\* attempt counter above it.
C30_StatsAndCounterBound ==
    [][/\ lastOp' = "getReconnectionStats" =>
            /\ stats'.totalAttempts = reconnectAttempts
            /\ stats'.maxAttempts = maxAttempts
            /\ stats'.remainingAttempts >= 0
            /\ stats'.remainingAttempts =
                  IF reconnectAttempts <= maxAttempts
                  THEN maxAttempts - reconnectAttempts ELSE 0
            /\ stats'.isMaxAttemptsReached <=> reconnectAttempts >= maxAttempts
            /\ UNCHANGED <<reconnectAttempts, maxAttempts, reconnectTimer,
                           rmOrphanTimers, isReconnecting>>
       /\ (/\ client = "ReconnectionManager"
           /\ maxAttempts' = maxAttempts
           /\ reconnectAttempts <= maxAttempts) =>
            reconnectAttempts' <= maxAttempts']_vars

C30_Witness ==
    /\ lastOp = "getReconnectionStats"
    /\ reconnectAttempts = 2
    /\ maxAttempts = 1
    /\ stats.remainingAttempts = 0
    /\ stats.isMaxAttemptsReached


\* the listeners a notification called, in order
Invoked(n) == SelectSeq(n, LAMBDA x : x # Thrown)

Registered(l) == {l[i] : i \in DOMAIN l}

\* C31: on each 'online' transition every registered listener is invoked
\* with true, on each 'offline' transition with false, in registration
\* order; removeListener(cb) leaves cb unregistered, so that no later
\* transition invokes it, and changes nothing when cb is not registered.
C31_AllListenersNotified ==
    [][client = "NetworkStateDetector" =>
        /\ lastOp' \in {"online", "offline"} =>
              /\ Invoked(notified') = listeners
              /\ isOnline' = (IF lastOp' = "online" THEN "true" ELSE "false")
        /\ lastOp' = "removeListener" =>
              /\ callbackArg' \notin Registered(listeners')
              /\ callbackArg' \notin Registered(listeners) => listeners' = listeners]_vars

\* a listener called before callback's turn removed it
RemovedBeforeItsTurn(callback, n, does) ==
    \E j \in DOMAIN n :
        /\ n[j] \notin {callback, Thrown}
        /\ does[n[j]] = [do |-> "removeListener", callback |-> callback]
        /\ \A i \in 1..(j - 1) : n[i] # callback

\* C38: during one notification in which no listener throws, every listener
\* registered (once) when the transition occurred is invoked exactly once,
\* unless a listener called before its turn removed it, whatever the
\* listeners add or remove from inside their callbacks.
C38_ReentrantListenersAllInvoked ==
    [][(client = "NetworkStateDetector" /\ lastOp' \in {"online", "offline"}
        /\ Thrown \notin Registered(notified')) =>
        \A callback \in Registered(listeners) :
            Count(listeners, callback) = 1 =>
                \/ Count(notified', callback) = 1
                \/ /\ Count(notified', callback) = 0
                   /\ RemovedBeforeItsTurn(callback, notified', reentry')]_vars

\* a client given to the monitor is not connected
SomeMonitoredDisconnected == \E k \in DOMAIN monitored : monitored[k] = "disconnected"

\* C32: when the window fires 'online' after 'offline' while a monitored
\* client is not connected, the monitor (not destroyed) forces a
\* reconnection: its manager schedules an attempt.
C32_OnlineForcesReconnection ==
    [][(client = "ReconnectionMonitor" /\ lastOp' = "online" /\ isOnline = "false"
        /\ listeners # <<>> /\ SomeMonitoredDisconnected) =>
        /\ "onReconnectionAttempt" \in called'
        /\ reconnectTimer' = "pending"]_vars

\* a 'reconnect' event that carries a duration
CarriesDuration(e) == e.type = "reconnect" /\ e.duration # NoDuration

\* C33: recordConnectionEvent appends one event to the history and leaves
\* the rest of it alone; after it, and after getMetrics, totalConnections,
\* successfulConnections and failedConnections count the 'connect' events,
\* the successful and the failed ones, totalConnections is their sum, and
\* averageReconnectionTime is the mean duration of the 'reconnect' events
\* that carry a duration.
C33_MetricsMatchHistory ==
    [][client = "ReconnectionMonitor" =>
        /\ lastOp' = "recordConnectionEvent" =>
              /\ Len(connectionHistory') = Len(connectionHistory) + 1
              /\ SubSeq(connectionHistory', 1, Len(connectionHistory)) = connectionHistory
        /\ lastOp' \in {"recordConnectionEvent", "getMetrics"} =>
              LET timed == SelectSeq(connectionHistory', CarriesDuration)
              IN  /\ metrics'.totalConnections
                        = Len(SelectSeq(connectionHistory', IsConnect))
                  /\ metrics'.successfulConnections
                        = Len(SelectSeq(connectionHistory', IsConnectSuccess))
                  /\ metrics'.failedConnections
                        = Len(SelectSeq(connectionHistory', IsConnectFailure))
                  /\ metrics'.totalConnections
                        = metrics'.successfulConnections + metrics'.failedConnections
                  /\ Len(timed) > 0 =>
                        metrics'.averageReconnectionTime.num * Len(timed)
                            = reduce(timed) * metrics'.averageReconnectionTime.den]_vars

\* C34: after resetMetrics the history is empty, the metrics are the initial
\* ones (every counter 0, lastConnectionDuration null), the wrapped manager
\* has counted no attempt and is not reconnecting, and no timer is pending,
\* so that no callback scheduled earlier is invoked.
C34_ResetMetricsClearsAll ==
    [][(client = "ReconnectionMonitor" /\ lastOp' = "resetMetrics") =>
        /\ connectionHistory' = <<>>
        /\ metrics' = InitialMetrics
        /\ metrics'.totalReconnectionAttempts = 0
        /\ metrics'.averageReconnectionTime.num = 0
        /\ metrics'.lastConnectionDuration = NoDuration
        /\ reconnectAttempts' = 0
        /\ ~isReconnecting'
        /\ PendingTimers(reconnectTimer', rmOrphanTimers') = 0]_vars

\* resetMetrics has run on a monitor with a history, after a forced
\* reconnection
C34_Witness ==
    /\ client = "ReconnectionMonitor"
    /\ lastOp = "resetMetrics"
    /\ prevAttempts = 1
    /\ reconnectAttempts = 0
    /\ connectionHistory = <<>>
    /\ metrics = InitialMetrics

\* C36: whenever the connection the WebSocketClient refers to is open, its
\* heartbeat interval is armed; no event of a connection the client has
\* replaced stops it.
C36_OpenConnectionHasHeartbeat ==
    (client = "WebSocketClient" /\ websocket = "OPEN") => heartbeatTimer

\* the step handles an open, error or close event of a connection the
\* client no longer refers to
DiscardedConnectionEvent ==
    /\ lastOp' \in {"onopen", "onerror", "onclose", "onerror+onclose"}
    /\ orphans' # orphans

\* C37: an event of a connection the client has discarded changes neither
\* isConnecting nor the attempt counter, and leaves isConnecting true
\* exactly when the current connection is still connecting.
C37_DiscardedConnectionsAreInert ==
    [][(IsTransportClient /\ DiscardedConnectionEvent) =>
        /\ isConnecting' = isConnecting
        /\ retryAttempts' = retryAttempts
        /\ isConnecting' <=> (Current' = "CONNECTING")]_vars

\* C35: enableAutoTracker called again with the options in force, while the
\* connection of the tracker's client is open, creates no client, closes or
\* replaces no connection and leaves the session id of the client unchanged.
C35_RepeatedEnableIsIdempotent ==
    [][(/\ lastOp' = "enableAutoTracker"
        /\ trackerEnabled
        /\ trackerOptions' = trackerOptions
        /\ websocketClient # 0
        /\ clients[websocketClient].websocket = "OPEN") =>
        /\ websocketClient' = websocketClient
        /\ clients' = clients]_vars

\* client c has a connection that is connecting or open
HasLiveConnection(c) ==
    \/ c.websocket \in {"CONNECTING", "OPEN"}
    \/ c.orphans["CONNECTING"] + c.orphans["OPEN"] > 0

\* C39: only the client the tracker refers to has a connecting or open
\* connection, and right after disableAutoTracker no client the tracker
\* created has such a connection or a pending retry timer.
C39_AtMostOneLiveClient ==
    client = "AutoTracker" =>
        /\ \A i \in 1..Len(clients) :
              i # websocketClient => ~HasLiveConnection(clients[i])
        /\ lastOp = "disableAutoTracker" =>
              \A i \in 1..Len(clients) :
                  ~HasLiveConnection(clients[i]) /\ TrkPendingTimers(clients[i]) = 0

\* the step is a check of the polling loop that finds the client connected
ConnectedCheck ==
    /\ lastOp' = "pollCheck"
    /\ websocketClient # 0
    /\ WsIsConnected(clients[websocketClient])

\* C40: the interval of track("UserLogin") is armed only while fewer than 50
\* checks have run, the payload is sent at most once and only by a check that
\* finds the client connected, and no interval is armed for another event.
C40_UserLoginPollingTerminates ==
    [][/\ poll'.phase = "interval" => poll'.attempts < PollMaxAttempts
       /\ poll'.attempts <= PollMaxAttempts
       /\ poll'.sent <= 1
       /\ poll'.sent > poll.sent => ConnectedCheck
       /\ poll'.eventName # "UserLogin" =>
             poll'.phase # "interval" /\ poll'.attempts = 0]_vars

\* a loop that gave up after 50 checks without a connected client
C40_Witness ==
    /\ poll.phase = "cleared"
    /\ poll.eventName = "UserLogin"
    /\ poll.attempts = PollMaxAttempts
    /\ poll.sent = 0
====
